---- MODULE Spec2Model ----
(***************************************************************************)
(* Model of the model-monitor analyzer (src/analyzer.py): the identifier   *)
(* reconciler (_norm, _tokens, _token_overlap, _find_pricing,              *)
(* _find_usage_info), the row fusion and temporal diff of analyze() and    *)
(* the publisher scorecard of get_company_scorecard() and the pick         *)
(* scenarios of get_model_picks().                                         *)
(*                                                                         *)
(* Strings are sequences of one-character strings.  A nullable value is    *)
(* None (the empty sequence) or Some(v) (a one-element sequence).  A       *)
(* Python dict read with .get() is a record read with Get().               *)
(***************************************************************************)
EXTENDS Integers, Sequences, FiniteSets, TLC

VARIABLES
    lmarena,       \* analyze() input: current / previous_7d / previous_30d
    or_data,       \* analyze() input: pricing and usage_ranks catalogues
    result,        \* the value returned by analyze(), None before the call
    scorecard,     \* the value returned by get_company_scorecard()
    pc,            \* position of the analysis pipeline
    m_target,      \* reconciler input: the leaderboard identifier
    m_keys,        \* reconciler input: the catalogue keys, in dict order
    m_pricing,     \* result of _find_pricing, NotRun before the call
    m_usage,       \* result of _find_usage_info, NotRun before the call
    p_rankings,    \* get_model_picks() input: analysis_result["rankings"]
    picks,         \* the value returned by get_model_picks(), NotRun before
    v_lst,         \* best_by_value() input: the partition lst
    v_run,         \* best_by_value(v_lst): the _score of every valid candidate
                   \* and the value returned, NotRun before the call
    v_prev,        \* v_run before a quality score was raised
    logo_meta,     \* company_logos.json: the publishers with a stored logo
    run1,          \* analyze() called twice on lmarena, or_data: the value
    run2,          \* returned by the first and by the second call
    g_id,          \* get_lab_from_model_id() input: the identifier
    g_lab,         \* the value returned by get_lab_from_model_id(), None before
    t_a,           \* _token_overlap() inputs: the token set a
    t_b,           \* and the token set b
    t_ab,          \* _token_overlap(t_a, t_b), None before the call
    t_ba,          \* _token_overlap(t_b, t_a), None before the call
    f_clock,       \* lmarena.fetch(): the wall clock, in seconds
    f_files,       \* the files under data/: cache, timestamped and fixed snapshots
    f_out,         \* the value returned by the last fetch(), NotRun before
    f_calls,       \* the number of fetch() calls made
    s_req,         \* index(): the sort arguments of the request
    s_data,        \* index(): the value analyze() returned
    s_out          \* the sections after the sorting step of index(), NotRun before

vars == <<lmarena, or_data, result, scorecard, pc,
          m_target, m_keys, m_pricing, m_usage,
          p_rankings, picks, v_lst, v_run, v_prev,
          logo_meta, run1, run2,
          g_id, g_lab,
          t_a, t_b, t_ab, t_ba,
          f_clock, f_files, f_out, f_calls,
          s_req, s_data, s_out>>

pipeVars  == <<lmarena, or_data, result, scorecard, pc>>
matchVars == <<m_target, m_keys, m_pricing, m_usage>>
pickVars  == <<p_rankings, picks>>
valueVars == <<v_lst, v_run, v_prev>>
repeatVars == <<logo_meta, run1, run2>>
labVars == <<g_id, g_lab>>
overlapVars == <<t_a, t_b, t_ab, t_ba>>
fetchVars == <<f_clock, f_files, f_out, f_calls>>
indexVars == <<s_req, s_data, s_out>>
\* the state of the runs other than the pipeline, reconciler, picks and
\* value runs
sideVars == <<repeatVars, labVars, overlapVars, fetchVars, indexVars>>

-----------------------------------------------------------------------------
(* Nullable values and dicts *)

None == <<>>
Some(v) == <<v>>
IsNone(o) == o = None
Val(o) == o[1]

EmptyDict == [k \in {} |-> None]
\* mutant of Get: a default of 0 in place of None, d.get(k, 0)
Get_ZeroDefault(d, k) == IF k \in DOMAIN d THEN d[k] ELSE Some(0)

\* d.get(k): the value under k, None when the key is absent
Get(d, k) == IF k \in DOMAIN d THEN d[k] ELSE None

\* the value of a result variable before the call that sets it
NotRun == [not_run |-> TRUE]

\* a sequence given as a function on 1..n, as the tuple of its values
AsSeq(f) == f \o <<>>

\* no get_model_picks() call and no best_by_value() call under way
PicksIdle == p_rankings = None /\ picks = NotRun
ValueIdle == v_lst = None /\ v_run = NotRun /\ v_prev = NotRun
RepeatIdle == logo_meta = {} /\ run1 = NotRun /\ run2 = NotRun
LabIdle == g_id = None /\ g_lab = None
OverlapIdle == t_a = None /\ t_b = None /\ t_ab = None /\ t_ba = None
FetchIdle == f_clock = 0 /\ f_files = None /\ f_out = NotRun /\ f_calls = 0
IndexIdle == s_req = None /\ s_data = None /\ s_out = NotRun
SideIdle == RepeatIdle /\ LabIdle /\ OverlapIdle /\ FetchIdle /\ IndexIdle

-----------------------------------------------------------------------------
(* Characters *)

LowerSeq == <<"a","b","c","d","e","f","g","h","i","j","k","l","m",
              "n","o","p","q","r","s","t","u","v","w","x","y","z">>
UpperSeq == <<"A","B","C","D","E","F","G","H","I","J","K","L","M",
              "N","O","P","Q","R","S","T","U","V","W","X","Y","Z">>
DigitSet == {"0","1","2","3","4","5","6","7","8","9"}
LowerSet == {LowerSeq[i] : i \in DOMAIN LowerSeq}
UpperSet == {UpperSeq[i] : i \in DOMAIN UpperSeq}

IsDigit(c) == c \in DigitSet
\* [a-z0-9]
IsAlnum(c) == c \in LowerSet \/ c \in DigitSet
\* \w
IsWord(c) == c \in LowerSet \/ c \in UpperSet \/ c \in DigitSet \/ c = "_"

LowerChar(c) ==
    IF c \in UpperSet
    THEN LowerSeq[CHOOSE i \in DOMAIN UpperSeq : UpperSeq[i] = c]
    ELSE c
\* str.lower()
Lower(s) == AsSeq([i \in 1..Len(s) |-> LowerChar(s[i])])

\* s.startswith(p)
StartsWith(s, p) == Len(p) <= Len(s) /\ SubSeq(s, 1, Len(p)) = p

-----------------------------------------------------------------------------
(* Identifier reconciler *)

\* s.split("/", 1)[-1]: the text after the first "/", s itself without one
AfterSlash(s) ==
    IF \E i \in 1..Len(s) : s[i] = "/"
    THEN LET i == CHOOSE i \in 1..Len(s) :
                     s[i] = "/" /\ \A j \in 1..(i-1) : s[j] # "/"
         IN  SubSeq(s, i + 1, Len(s))
    ELSE s

\* _norm
Norm(s) == SelectSeq(Lower(AfterSlash(s)), IsAlnum)

\* number of digits of the date suffix, \d{8}
DateDigits == 8

\* re.sub(r"-\d{8}$", "", s)
StripDate(s) ==
    LET n == Len(s) IN
    IF /\ n >= DateDigits + 1
       /\ s[n - DateDigits] = "-"
       /\ \A i \in (n - DateDigits + 1)..n : IsDigit(s[i])
    THEN SubSeq(s, 1, n - DateDigits - 1)
    ELSE s

\* re.sub(r":\w+$", "", s)
StripQualifier(s) ==
    LET n == Len(s)
        P == {i \in 1..n : /\ s[i] = ":"
                           /\ i < n
                           /\ \A j \in (i+1)..n : IsWord(s[j])}
    IN  IF P = {} THEN s ELSE SubSeq(s, 1, (CHOOSE i \in P : TRUE) - 1)

\* re.split(r"[^a-z0-9]+", t) without the empty parts: the maximal runs
SplitAlnum(t) ==
    LET n == Len(t)
        starts == {i \in 1..n : IsAlnum(t[i]) /\ (i = 1 \/ ~IsAlnum(t[i-1]))}
        endOf(i) == CHOOSE j \in i..n :
                        /\ \A k \in i..j : IsAlnum(t[k])
                        /\ (j = n \/ ~IsAlnum(t[j+1]))
    IN  {SubSeq(t, i, endOf(i)) : i \in starts}

\* _tokens
Tokens(s) == SplitAlnum(Lower(StripQualifier(StripDate(AfterSlash(s)))))

\* mutant of TokenOverlap: the share of the tokens of a that b has
TokenOverlap_OfFirst(a, b) ==
    IF a = {} \/ b = {}
    THEN <<0, 1>>
    ELSE <<Cardinality(a \cap b), Cardinality(a)>>

\* _token_overlap: the quotient len(a & b) / len(a | b) as <<numerator, denominator>>
TokenOverlap(a, b) ==
    IF a = {} \/ b = {}
    THEN <<0, 1>>
    ELSE <<Cardinality(a \cap b), Cardinality(a \cup b)>>

\* mutant of ScoreGT: "score >= best_score", the last of tied keys wins
ScoreGT_OrEqual(x, y) == x[1] * y[2] >= y[1] * x[2]

\* x > y and x >= y on quotients with positive denominators
ScoreGT(x, y) == x[1] * y[2] > y[1] * x[2]
ScoreGE(x, y) == x[1] * y[2] >= y[1] * x[2]

\* the acceptance threshold 0.5
Threshold == <<1, 2>>
ZeroScore == <<0, 1>>

\* mutant of MatchLoop: no early return on an equal normalized form
RECURSIVE MatchLoop_NoEarlyReturn(_, _, _, _, _, _)
MatchLoop_NoEarlyReturn(key, ktok, catalogue, i, best, best_score) ==
    IF i > Len(catalogue)
    THEN [exact |-> FALSE, val |-> best, score |-> best_score]
    ELSE LET v     == catalogue[i].val
             score == TokenOverlap(ktok, Tokens(catalogue[i].key))
         IN  IF score[1] * best_score[2] > best_score[1] * score[2]
             THEN MatchLoop_NoEarlyReturn(key, ktok, catalogue, i + 1, v, score)
             ELSE MatchLoop_NoEarlyReturn(key, ktok, catalogue, i + 1, best, best_score)

\* The loop of _find_pricing / _find_usage_info from entry i on: a record
\* [exact, val, score]; exact = TRUE is the early return of an equal _norm.
RECURSIVE MatchLoop(_, _, _, _, _, _)
MatchLoop(key, ktok, catalogue, i, best, best_score) ==
    IF i > Len(catalogue)
    THEN [exact |-> FALSE, val |-> best, score |-> best_score]
    ELSE LET or_id == catalogue[i].key
             v     == catalogue[i].val
             score == TokenOverlap(ktok, Tokens(or_id))
         IN  IF Norm(or_id) = key
             THEN [exact |-> TRUE, val |-> v, score |-> best_score]
             ELSE IF ScoreGT(score, best_score)
                  THEN MatchLoop(key, ktok, catalogue, i + 1, v, score)
                  ELSE MatchLoop(key, ktok, catalogue, i + 1, best, best_score)

\* _find_pricing
FindPricing(model_id, pricing) ==
    LET r == MatchLoop(Norm(model_id), Tokens(model_id), pricing, 1,
                       EmptyDict, ZeroScore)
    IN  IF r.exact THEN r.val
        ELSE IF ScoreGE(r.score, Threshold) THEN r.val ELSE EmptyDict

\* _find_usage_info
FindUsageInfo(model_id, usage_ranks) ==
    LET r == MatchLoop(Norm(model_id), Tokens(model_id), usage_ranks, 1,
                       None, ZeroScore)
    IN  IF r.exact THEN r.val
        ELSE IF ScoreGE(r.score, Threshold) THEN r.val ELSE None

-----------------------------------------------------------------------------
(* Identifiers and catalogue keys of the reconciler runs *)

Str_gpt    == <<"g","p","t">>
Str_turbo  == <<"t","u","r","b","o">>
Str_claude == <<"c","l","a","u","d","e">>
Str_llama  == <<"l","l","a","m","a">>
Str_openai == <<"o","p","e","n","a","i">>
Str_free   == <<"f","r","e","e">>
Str_date1  == <<"2","0","2","5","0","1","0","1">>
Str_date2  == <<"2","0","2","4","1","0","2","2">>

Upper(s) == [i \in 1..Len(s) |->
                IF s[i] \in LowerSet
                THEN UpperSeq[CHOOSE k \in DOMAIN LowerSeq : LowerSeq[k] = s[i]]
                ELSE s[i]]

\* "gpt-5-turbo", "gpt-5", "claude-3-20241022"
Local_gpt5turbo == Str_gpt \o <<"-","5","-">> \o Str_turbo
Local_gpt5      == Str_gpt \o <<"-","5">>
Local_dated     == Str_claude \o <<"-","3","-">> \o Str_date2

\* the leaderboard identifiers looked up
MatchTargets ==
    { Str_openai \o <<"/">> \o Local_gpt5turbo,     \* "openai/gpt-5-turbo"
      Local_gpt5turbo,                              \* "gpt-5-turbo"
      Local_gpt5,                                   \* "gpt-5"
      Local_dated }                                 \* "claude-3-20241022"

\* the suffixes a marketplace key appends: none, "-YYYYMMDD", ":variant",
\* and the two in either order
KeySuffixes ==
    { <<>>,
      <<"-">> \o Str_date1,
      <<":">> \o Str_free,
      <<"-">> \o Str_date1 \o <<":">> \o Str_free,
      <<":">> \o Str_free \o <<"-">> \o Str_date1 }

\* the keys obtained from identifier t by changing the provider prefix or
\* the case and appending a suffix
VariantsOf(t) ==
    { AfterSlash(t) \o sfx : sfx \in KeySuffixes }
    \cup
    { Upper(Str_openai) \o <<"/">> \o Upper(AfterSlash(t)) \o sfx :
          sfx \in KeySuffixes }

\* keys that are no variant of an identifier: another separator
\* ("openai/gpt_5.turbo"), other models ("openai/gpt-4-turbo", "openai/gpt-4",
\* "meta/llama-4")
OtherKeys ==
    { Str_openai \o <<"/">> \o Str_gpt \o <<"_","5",".">> \o Str_turbo,
      Str_openai \o <<"/">> \o Str_gpt \o <<"-","4","-">> \o Str_turbo,
      Str_openai \o <<"/">> \o Str_gpt \o <<"-","4">>,
      <<"m","e","t","a","/">> \o Str_llama \o <<"-","4">> }

KeyPool(t) == VariantsOf(t) \cup OtherKeys

\* largest catalogue of a reconciler run
MaxKeys == 2

\* the sequences of at most n distinct keys of pool
RECURSIVE KeySeqs(_, _)
KeySeqs(pool, n) ==
    IF n = 0 THEN {<<>>}
    ELSE LET shorter == KeySeqs(pool, n - 1)
         IN  shorter \cup
             { Append(q, k) : <<q, k>> \in
                 { p \in shorter \X pool :
                     /\ Len(p[1]) = n - 1
                     /\ \A i \in 1..Len(p[1]) : p[1][i] # p[2] } }

\* the value stored under the i-th key of a pricing / usage catalogue
PriceVal(i) == [price_input |-> Some(i), price_output |-> Some(2 * i),
                created |-> None, context_length |-> None]
UsageVal(i) == [rank |-> Some(i), tokens |-> Some(100 * i)]

PricingOfKeys(keys) == [i \in 1..Len(keys) |-> [key |-> keys[i], val |-> PriceVal(i)]]
UsageOfKeys(keys)   == [i \in 1..Len(keys) |-> [key |-> keys[i], val |-> UsageVal(i)]]

-----------------------------------------------------------------------------
(* Reconciler runs: one identifier looked up in one catalogue *)

PipeIdle ==
    /\ lmarena = None /\ or_data = None /\ result = None
    /\ scorecard = None /\ pc = "idle"

InitMatch ==
    /\ m_target \in MatchTargets
    /\ m_keys \in KeySeqs(KeyPool(m_target), MaxKeys)
    /\ m_pricing = NotRun
    /\ m_usage = NotRun
    /\ PipeIdle
    /\ PicksIdle
    /\ ValueIdle
    /\ SideIdle

CallFindPricing ==
    /\ m_pricing = NotRun
    /\ m_pricing' = FindPricing(m_target, PricingOfKeys(m_keys))
    /\ UNCHANGED <<m_target, m_keys, m_usage>>
    /\ UNCHANGED pipeVars
    /\ UNCHANGED <<pickVars, valueVars>>
    /\ UNCHANGED sideVars

CallFindUsageInfo ==
    /\ m_usage = NotRun
    /\ m_usage' = FindUsageInfo(m_target, UsageOfKeys(m_keys))
    /\ UNCHANGED <<m_target, m_keys, m_pricing>>
    /\ UNCHANGED pipeVars
    /\ UNCHANGED <<pickVars, valueVars>>
    /\ UNCHANGED sideVars

NextMatch == CallFindPricing \/ CallFindUsageInfo

SpecMatch == InitMatch /\ [][NextMatch]_vars

\* positions of the keys whose normalized form equals the identifier's,
\* stated on the characters: same letters and digits after the prefix
SameNormalized(a, b) ==
    SelectSeq(Lower(AfterSlash(a)), IsAlnum) = SelectSeq(Lower(AfterSlash(b)), IsAlnum)
ExactKeys == {i \in 1..Len(m_keys) : SameNormalized(m_keys[i], m_target)}

\* Jaccard score of the i-th key against the identifier
KeyScore(i) == TokenOverlap(Tokens(m_target), Tokens(m_keys[i]))
FullScore(i) == KeyScore(i)[1] = KeyScore(i)[2]
\* positions of the keys with the greatest score, and the first of them
BestKeys ==
    {i \in 1..Len(m_keys) : \A j \in 1..Len(m_keys) : ScoreGE(KeyScore(i), KeyScore(j))}
FirstBest == CHOOSE i \in BestKeys : \A j \in BestKeys : i <= j

\* C4: when some catalogue key has the identifier's normalized form, both
\* reconcilers return the value of such a key, whatever the token-overlap
\* scores of the other keys (earlier keys of overlap 1.0 included).
C4_ExactMatchWins ==
    ExactKeys # {} =>
        /\ m_pricing # NotRun => \E i \in ExactKeys : m_pricing = PriceVal(i)
        /\ m_usage # NotRun => \E i \in ExactKeys : m_usage = UsageVal(i)

\* an exact key preceded by a non-exact key of overlap 1.0, both lookups done
C4_Witness ==
    /\ m_pricing # NotRun /\ m_usage # NotRun
    /\ \E i \in ExactKeys : \E j \in 1..(i-1) : j \notin ExactKeys /\ FullScore(j)

\* C5: without an exact key, both reconcilers return the value of the first
\* key of greatest Jaccard score when that score is >= 0.5, and the empty
\* result ({} for pricing, null for usage) when it is below 0.5.
C5_FuzzyFallback ==
    ExactKeys = {} =>
        LET hit == m_keys # <<>> /\ 2 * KeyScore(FirstBest)[1] >= KeyScore(FirstBest)[2]
        IN  /\ m_pricing # NotRun =>
                m_pricing = (IF hit THEN PriceVal(FirstBest) ELSE EmptyDict)
            /\ m_usage # NotRun =>
                m_usage = (IF hit THEN UsageVal(FirstBest) ELSE None)

\* two keys tied for the greatest score, exactly 0.5, no exact key: the first
\* is returned
C5_Witness ==
    /\ m_pricing # NotRun /\ m_usage # NotRun
    /\ ExactKeys = {}
    /\ Cardinality(BestKeys) = 2
    /\ 2 * KeyScore(FirstBest)[1] = KeyScore(FirstBest)[2]
    /\ m_pricing = PriceVal(1)

\* positions of the keys that are variants of the identifier: another
\* provider prefix or case, a date suffix and/or a qualifier appended
VariantKeys == {i \in 1..Len(m_keys) : m_keys[i] \in VariantsOf(m_target)}

\* C6: a key obtained from the identifier by changing the provider prefix or
\* the case and appending a "-YYYYMMDD" suffix and/or a ":variant" qualifier
\* has the identifier's token set, hence overlap 1.0, and a key of overlap
\* 1.0 is returned when no key matches exactly.
C6_VariantKeyFullOverlap ==
    \A i \in VariantKeys :
        /\ Tokens(m_keys[i]) = Tokens(m_target)
        /\ FullScore(i)
        /\ (ExactKeys = {} /\ m_pricing # NotRun) =>
               \E j \in 1..Len(m_keys) : FullScore(j) /\ m_pricing = PriceVal(j)

-----------------------------------------------------------------------------
(* Publisher attribution and licensing class *)

\* RULES of get_lab_from_model_id, in order
LabRules ==
    << [prefix |-> <<"c","l","a","u","d","e">>, lab |-> "Anthropic"],
       [prefix |-> <<"g","p","t">>, lab |-> "OpenAI"],
       [prefix |-> <<"o","1">>, lab |-> "OpenAI"],
       [prefix |-> <<"o","3">>, lab |-> "OpenAI"],
       [prefix |-> <<"c","h","a","t","g","p","t">>, lab |-> "OpenAI"],
       [prefix |-> <<"g","e","m","i","n","i">>, lab |-> "Google"],
       [prefix |-> <<"g","e","m","m","a">>, lab |-> "Google"],
       [prefix |-> <<"g","r","o","k">>, lab |-> "xAI"],
       [prefix |-> <<"d","o","l","a">>, lab |-> "ByteDance"],
       [prefix |-> <<"l","l","a","m","a","-","3",".","1","-","n","e","m","o","t","r","o","n">>, lab |-> "NVIDIA"],
       [prefix |-> <<"l","l","a","m","a","-","3",".","3","-","n","e","m","o","t","r","o","n">>, lab |-> "NVIDIA"],
       [prefix |-> <<"n","e","m","o","t","r","o","n">>, lab |-> "NVIDIA"],
       [prefix |-> <<"l","l","a","m","a">>, lab |-> "Meta"],
       [prefix |-> <<"m","i","s","t","r","a","l">>, lab |-> "Mistral"],
       [prefix |-> <<"m","i","x","t","r","a","l">>, lab |-> "Mistral"],
       [prefix |-> <<"m","i","n","i","s","t","r","a","l">>, lab |-> "Mistral"],
       [prefix |-> <<"d","e","e","p","s","e","e","k">>, lab |-> "DeepSeek"],
       [prefix |-> <<"q","w","e","n">>, lab |-> "Alibaba"],
       [prefix |-> <<"q","w","q">>, lab |-> "Alibaba"],
       [prefix |-> <<"p","h","i">>, lab |-> "Microsoft"],
       [prefix |-> <<"c","o","m","m","a","n","d">>, lab |-> "Cohere"],
       [prefix |-> <<"k","i","m","i">>, lab |-> "Moonshot"],
       [prefix |-> <<"g","l","m">>, lab |-> "Zhipu"],
       [prefix |-> <<"g","r","a","n","i","t","e">>, lab |-> "IBM"],
       [prefix |-> <<"o","l","m","o">>, lab |-> "AI2"],
       [prefix |-> <<"m","o","l","m","o">>, lab |-> "AI2"],
       [prefix |-> <<"j","a","m","b","a">>, lab |-> "AI21 Labs"],
       [prefix |-> <<"y","i">>, lab |-> "01.AI"],
       [prefix |-> <<"m","i","n","i","m","a","x">>, lab |-> "MiniMax"],
       [prefix |-> <<"a","b","a","b">>, lab |-> "MiniMax"],
       [prefix |-> <<"e","r","n","i","e">>, lab |-> "Baidu"] >>

\* OPEN of get_is_open_source
OpenPrefixes ==
    { <<"l","l","a","m","a">>,
      <<"g","e","m","m","a">>,
      <<"m","i","s","t","r","a","l">>,
      <<"m","i","x","t","r","a","l">>,
      <<"m","i","n","i","s","t","r","a","l">>,
      <<"d","e","e","p","s","e","e","k">>,
      <<"q","w","e","n">>,
      <<"q","w","q">>,
      <<"p","h","i">>,
      <<"c","o","m","m","a","n","d","-","r">>,
      <<"g","r","a","n","i","t","e">>,
      <<"o","l","m","o">>,
      <<"m","o","l","m","o">>,
      <<"j","a","m","b","a">>,
      <<"l","l","a","m","a","-","3",".","1","-","n","e","m","o","t","r","o","n">>,
      <<"l","l","a","m","a","-","3",".","3","-","n","e","m","o","t","r","o","n">> }


\* mutant of GetLabFromModelId: the last matching rule in place of the first
GetLabFromModelId_LastRule(model_id) ==
    LET mid  == Lower(AfterSlash(model_id))
        hits == {i \in DOMAIN LabRules : StartsWith(mid, LabRules[i].prefix)}
    IN  IF hits = {} THEN "Unknown"
        ELSE LabRules[CHOOSE i \in hits : \A j \in hits : i >= j].lab

\* get_lab_from_model_id: the first rule whose prefix starts the local name
GetLabFromModelId(model_id) ==
    LET mid  == Lower(AfterSlash(model_id))
        hits == {i \in DOMAIN LabRules : StartsWith(mid, LabRules[i].prefix)}
    IN  IF hits = {} THEN "Unknown"
        ELSE LabRules[CHOOSE i \in hits : \A j \in hits : i <= j].lab

\* get_is_open_source
GetIsOpenSource(model_id) ==
    LET mid == Lower(AfterSlash(model_id))
    IN  \E p \in OpenPrefixes : StartsWith(mid, p)

-----------------------------------------------------------------------------
(* Sequence helpers *)

\* seq[:n]
Take(seq, n) == SubSeq(seq, 1, IF Len(seq) < n THEN Len(seq) ELSE n)

\* list.sort(key=...): ascending and stable (equal keys keep their order);
\* keys[i] is the sort key of seq[i], and the element at position k is the
\* one with k-1 elements ordered before it
SortByKey(seq, keys) ==
    LET n    == Len(seq)
        pos  == AsSeq([i \in 1..n |->
                    Cardinality({j \in 1..n : keys[j] < keys[i]
                                     \/ (keys[j] = keys[i] /\ j < i)}) + 1])
    IN  AsSeq([k \in 1..n |-> seq[CHOOSE i \in 1..n : pos[i] = k]])

\* int(a / b) for b > 0: truncation toward zero
TruncDiv(a, b) == IF a >= 0 THEN a \div b ELSE -((-a) \div b)

-----------------------------------------------------------------------------
(* Policy constants of analyze() *)

\* fast-riser list length, new-star rank cut-off, baseline top set cut-off
RiserLimit == 10
StarRankMax == 30
BaselineTopMax == 50
SecondsPerDay == 86400

-----------------------------------------------------------------------------
(* Inputs of the analysis pipeline *)

\* the leaderboard identifiers: claude-4, gpt-5, o3, gemini-2, gemma-3, grok-4, llama-4, llama-3.1-nemotron, qwen-3, deepseek-v3, mistral-7, zeta-1, yi-2
IdPool ==
    << <<"c","l","a","u","d","e","-","4">>,
       <<"g","p","t","-","5">>,
       <<"o","3">>,
       <<"g","e","m","i","n","i","-","2">>,
       <<"g","e","m","m","a","-","3">>,
       <<"g","r","o","k","-","4">>,
       <<"l","l","a","m","a","-","4">>,
       <<"l","l","a","m","a","-","3",".","1","-","n","e","m","o","t","r","o","n">>,
       <<"q","w","e","n","-","3">>,
       <<"d","e","e","p","s","e","e","k","-","v","3">>,
       <<"m","i","s","t","r","a","l","-","7">>,
       <<"z","e","t","a","-","1">>,
       <<"y","i","-","2">> >>

\* number of entries of a full leaderboard
BoardSize == 12

\* a leaderboard: the identifiers IdPool[idx[i]], ranked start, start + step, ...
Board(idx, start, step) ==
    [i \in 1..Len(idx) |->
        [ rank     |-> start + (i - 1) * step,
          model_id |-> IdPool[idx[i]],
          score    |-> Some(1500 - (start + (i - 1) * step)) ]]

FullOrder == [i \in 1..BoardSize |-> i]
RevOrder  == [i \in 1..BoardSize |-> BoardSize + 1 - i]

CurrentGeneral ==
    { <<>>,
      Board(FullOrder, 1, 1),          \* ranks 1..12
      Board(FullOrder, 25, 1),         \* ranks 25..36, across the cut-off 30
      Board(<<1, 2, 7>>, 1, 1) }
CurrentCoding ==
    { <<>>,
      Board(<<2, 9, 1, 10>>, 1, 1),
      Board(<<9, 12, 2>>, 2, 20) }     \* ranks 2, 22, 42

BaselineGeneral ==
    { <<>>,
      Board(FullOrder, 1, 1),          \* unchanged ranks
      Board(RevOrder, 1, 1),           \* reversed
      Board(FullOrder, 2, 2),          \* ranks 2, 4, ...: every delta distinct
      Board(FullOrder, 45, 1),         \* ranks 45..56, across the cut-off 50
      Board(<<3, 1, 5>>, 1, 1) }
BaselineCoding ==
    { <<>>,
      Board(<<1, 2, 9>>, 1, 1),
      Board(<<9, 2>>, 49, 2) }         \* ranks 49, 51

Baselines7d ==
    {None} \cup
    { [general |-> g, coding |-> c] : g \in BaselineGeneral, c \in BaselineCoding }
Baselines30d ==
    {None} \cup
    { [general |-> g, coding |-> c] :
        g \in { <<>>, Board(RevOrder, 1, 1), Board(FullOrder, 45, 1),
                Board(<<3, 1, 5>>, 1, 1) },
        c \in { <<>>, Board(<<1, 2, 9>>, 1, 1) } }

\* marketplace catalogues: "anthropic/claude-4", "openai/gpt-5-20250101",
\* "meta-llama/llama-4:free", "google/gemini-2.5"; prices in 1e-4 dollars
PricingFull ==
    << [key |-> <<"a","n","t","h","r","o","p","i","c","/","c","l","a","u","d","e","-","4">>,
        val |-> [price_input |-> Some(30000), price_output |-> Some(150000),
                 created |-> Some(3 * SecondsPerDay + 7),
                 context_length |-> Some(200000)]],
       [key |-> <<"o","p","e","n","a","i","/","g","p","t","-","5","-","2","0","2","5","0","1","0","1">>,
        val |-> [price_input |-> Some(12500), price_output |-> Some(100000),
                 created |-> None, context_length |-> Some(128000)]],
       [key |-> <<"m","e","t","a","-","l","l","a","m","a","/","l","l","a","m","a","-","4",":","f","r","e","e">>,
        val |-> [price_input |-> Some(2000), price_output |-> Some(2000),
                 created |-> Some(20 * SecondsPerDay),
                 context_length |-> None]],
       [key |-> <<"g","o","o","g","l","e","/","g","e","m","i","n","i","-","2",".","5">>,
        val |-> [price_input |-> Some(10000), price_output |-> Some(50000),
                 created |-> Some(SecondsPerDay),
                 context_length |-> Some(1000000)]] >>
\* "anthropic/claude-4", "openai/gpt-5", "deepseek/deepseek-v3"
UsageFull ==
    << [key |-> <<"a","n","t","h","r","o","p","i","c","/","c","l","a","u","d","e","-","4">>,
        val |-> [rank |-> Some(1), tokens |-> Some(500)]],
       [key |-> <<"o","p","e","n","a","i","/","g","p","t","-","5">>,
        val |-> [rank |-> Some(2), tokens |-> Some(300)]],
       [key |-> <<"d","e","e","p","s","e","e","k","/","d","e","e","p","s","e","e","k","-","v","3">>,
        val |-> [rank |-> Some(3), tokens |-> Some(200)]] >>

Catalogues ==
    { [pricing |-> <<>>, usage_ranks |-> <<>>],
      [pricing |-> PricingFull, usage_ranks |-> UsageFull],
      [pricing |-> SubSeq(PricingFull, 2, 3), usage_ranks |-> <<>>] }

\* wall-clock times of an analyze() call
NowSet == { 10 * SecondsPerDay, 10 * SecondsPerDay + 43200 }

\* _find_pricing, _find_usage_info, get_lab_from_model_id and
\* get_is_open_source tabulated over the identifiers and catalogues above:
\* each is a function of its arguments alone
PoolIds == {IdPool[i] : i \in DOMAIN IdPool}
PricingTable ==
    [c \in {od.pricing : od \in Catalogues} |->
        [id \in PoolIds |-> FindPricing(id, c)] @@ <<>>] @@ <<>>
UsageTable ==
    [c \in {od.usage_ranks : od \in Catalogues} |->
        [id \in PoolIds |-> FindUsageInfo(id, c)] @@ <<>>] @@ <<>>
LabTable  == [id \in PoolIds |-> GetLabFromModelId(id)] @@ <<>>
OpenTable == [id \in PoolIds |-> GetIsOpenSource(id)] @@ <<>>

PricingFor(mid, pricing) == PricingTable[pricing][mid]
UsageInfoFor(mid, usage_ranks) == UsageTable[usage_ranks][mid]
LabFor(mid) == LabTable[mid]
IsOpenSourceFor(mid) == OpenTable[mid]

-----------------------------------------------------------------------------
(* analyze(): row fusion and temporal diff *)

\* snapshot.get(cat, []) of a snapshot, of None or {} as well
CatRows(snap, cat) == IF cat \in DOMAIN snap THEN snap[cat] ELSE <<>>

\* {r["model_id"] for r in rows}
IdsOf(rows) == {rows[i].model_id : i \in DOMAIN rows}

\* {r["model_id"]: r["rank"] for r in rows}: a later row replaces an earlier
\* one of the same identifier
PrevById(rows) ==
    [id \in IdsOf(rows) |->
        rows[CHOOSE i \in DOMAIN rows :
                /\ rows[i].model_id = id
                /\ \A j \in DOMAIN rows : rows[j].model_id = id => j <= i].rank]

\* days_in_board
DaysInBoard(created_ts, now) ==
    IF created_ts # None /\ Val(created_ts) # 0
    THEN Some(TruncDiv(now - Val(created_ts), SecondsPerDay))
    ELSE None

\* mutant of RowRankDelta: the difference taken the other way round
RowRankDelta_Swapped(prev_rank_7d, rank) ==
    IF prev_rank_7d # None THEN Some(rank - Val(prev_rank_7d)) ELSE None

\* rank_delta of a merged row: 7d baseline rank minus current rank
RowRankDelta(prev_rank_7d, rank) ==
    IF prev_rank_7d # None THEN Some(Val(prev_rank_7d) - rank) ELSE None

\* the row appended to merged for one current row
MergedRow(row, prev_7d_by_id, pricing, usage_ranks, now) ==
    LET mid          == row.model_id
        prev_rank_7d == IF mid \in DOMAIN prev_7d_by_id
                        THEN Some(prev_7d_by_id[mid]) ELSE None
        price_info   == PricingFor(mid, pricing)
        ui           == UsageInfoFor(mid, usage_ranks)
        usage_info   == IF ui = None THEN EmptyDict ELSE ui
    IN  [ model_id       |-> mid,
          rank           |-> row.rank,
          elo            |-> row.score,
          prev_rank      |-> prev_rank_7d,
          rank_delta     |-> RowRankDelta(prev_rank_7d, row.rank),
          price_input    |-> Get(price_info, "price_input"),
          price_output   |-> Get(price_info, "price_output"),
          days_in_board  |-> DaysInBoard(Get(price_info, "created"), now),
          or_rank        |-> Get(usage_info, "rank"),
          or_volume      |-> Get(usage_info, "tokens"),
          context_length |-> Get(price_info, "context_length"),
          is_riser       |-> FALSE,
          is_new_star    |-> FALSE,
          lab            |-> LabFor(mid),
          is_open_source |-> IsOpenSourceFor(mid) ]

NegDelta(r) == -Val(r.rank_delta)
RankOf(r) == r.rank

\* risers.sort(key=lambda x: -(x["rank_delta"] or 0))
SortRisers(risers) ==
    SortByKey(risers, AsSeq([i \in DOMAIN risers |-> NegDelta(risers[i])]))

\* new_stars[window].sort(key=lambda x: x["rank"])
SortStars(stars) ==
    SortByKey(stars, AsSeq([i \in DOMAIN stars |-> RankOf(stars[i])]))

\* mutant of IsRiserRow: ">= 0", unchanged ranks count as risers
IsRiserRow_NonNegative(r, prev_by_id) ==
    /\ r.model_id \in DOMAIN prev_by_id
    /\ prev_by_id[r.model_id] - r.rank >= 0

\* the condition of the risers comprehension
IsRiserRow(r, prev_by_id) ==
    /\ r.model_id \in DOMAIN prev_by_id
    /\ prev_by_id[r.model_id] - r.rank > 0

\* risers[:10]
TopRisers(risers) == Take(risers, RiserLimit)

\* the risers of one window: copies of the merged rows found in the window's
\* baseline with a positive delta, sorted by -rank_delta, cut to ten
Risers(merged, prev_by_id) ==
    LET keep(r) == IsRiserRow(r, prev_by_id)
        kept    == SelectSeq(merged, keep)
        copies  == AsSeq([i \in DOMAIN kept |->
                     [kept[i] EXCEPT !.rank_delta =
                         Some(prev_by_id[kept[i].model_id] - kept[i].rank)]])
    IN  TopRisers(SortRisers(copies))

\* top50 of one window and category
Top50(prev_rows) ==
    {prev_rows[i].model_id : i \in {j \in DOMAIN prev_rows :
                                       prev_rows[j].rank <= BaselineTopMax}}

\* mutants of IsNewStar: "rank < 30"; no test that top50 is non-empty
IsNewStar_StrictRank(r, top50) ==
    r.rank < StarRankMax /\ r.model_id \notin top50 /\ top50 # {}
IsNewStar_NoBaselineCheck(r, top50) ==
    r.rank <= StarRankMax /\ r.model_id \notin top50

\* the condition of the new-star loop
IsNewStar(r, top50) ==
    r.rank <= StarRankMax /\ r.model_id \notin top50 /\ top50 # {}

\* mutant of FlagNewStar: the flag set by either window
FlagNewStar_AnyWindow(r, top50, window) ==
    IF IsNewStar(r, top50) THEN [r EXCEPT !.is_new_star = TRUE] ELSE r

\* the row after the new-star loop of a window: only the 7d window sets the
\* flag on the merged row
FlagNewStar(r, top50, window) ==
    IF IsNewStar(r, top50) /\ window = "7d"
    THEN [r EXCEPT !.is_new_star = TRUE]
    ELSE r

\* mutant of FlagRiser: the flagged row takes the rank it rose from
FlagRiser_MovesRank(r, riser_ids_7d) ==
    IF r.model_id \in riser_ids_7d
    THEN [r EXCEPT !.is_riser = TRUE, !.rank = Val(r.prev_rank)]
    ELSE r

\* the row after the is_riser loop
FlagRiser(r, riser_ids_7d) ==
    IF r.model_id \in riser_ids_7d THEN [r EXCEPT !.is_riser = TRUE] ELSE r

\* {**r, "category": cat}
WithCategory(r, cat) ==
    [f \in DOMAIN r \cup {"category"} |-> IF f = "category" THEN cat ELSE r[f]]

\* One pass of the loop over windows for category cat: the merged rows after
\* the pass, the window's riser list, and the rows appended to
\* new_stars[window] (copies taken right after the row's flag is set).
WindowPass(merged, window, prev_by_id, prev_rows_w, cat) ==
    LET risers  == Risers(merged, prev_by_id)
        top50   == Top50(CatRows(prev_rows_w, cat))
        flagged == AsSeq([i \in DOMAIN merged |->
                             FlagNewStar(merged[i], top50, window)])
        star(r) == IsNewStar(r, top50)
        starred == SelectSeq(flagged, star)
    IN  [ merged |-> flagged,
          risers |-> risers,
          stars  |-> AsSeq([i \in DOMAIN starred |-> WithCategory(starred[i], cat)]) ]

\* merged of category cat before the loop over windows
MergedRows(cur_rows, prev_7d_by_id, pricing, usage_ranks, now) ==
    AsSeq([i \in DOMAIN cur_rows |->
              MergedRow(cur_rows[i], prev_7d_by_id, pricing, usage_ranks, now)])

\* The end of the loop over categories, after the passes w7 and w30 of the
\* loop over windows: the is_riser loop and result["rankings"][cat].
CategoryOutput(w7, w30) ==
    [ rankings |-> AsSeq([i \in DOMAIN w30.merged |->
                             FlagRiser(w30.merged[i], IdsOf(w7.risers))]),
      risers   |-> [w \in {"7d", "30d"} |-> IF w = "7d" THEN w7.risers ELSE w30.risers],
      stars    |-> [w \in {"7d", "30d"} |-> IF w = "7d" THEN w7.stars ELSE w30.stars] ]

\* The loop over windows: the 30d pass works on the rows the 7d pass left.
WindowPasses(merged, prev_7d_by_id, prev_30d_by_id, previous_7d, previous_30d, cat) ==
    LET w7 == WindowPass(merged, "7d", prev_7d_by_id, previous_7d, cat)
    IN  CategoryOutput(w7, WindowPass(w7.merged, "30d", prev_30d_by_id,
                                      previous_30d, cat))

\* One pass of the loop over categories: everything analyze computes for cat.
AnalyzeCategory(cat, current, previous_7d, previous_30d, pricing, usage_ranks, now) ==
    LET prev_7d_by_id == PrevById(CatRows(previous_7d, cat))
    IN  WindowPasses(MergedRows(CatRows(current, cat), prev_7d_by_id,
                                pricing, usage_ranks, now),
                     prev_7d_by_id, PrevById(CatRows(previous_30d, cat)),
                     previous_7d, previous_30d, cat)

\* result after the loop over categories, per[cat] being what the pass for
\* cat computed
AssembleResult(per) ==
    [ rankings    |-> [cat \in {"general", "coding"} |-> per[cat].rankings],
      fast_risers |-> [w \in {"7d", "30d"} |->
                         [cat \in {"general", "coding"} |-> per[cat].risers[w]]],
      new_stars   |-> [w \in {"7d", "30d"} |->
                         SortStars(per["general"].stars[w] \o per["coding"].stars[w])] ]

\* analyze(lmarena, aa, or_data), evaluated at wall-clock time now
AnalyzeResult(lm, od, now) ==
    AssembleResult([cat \in {"general", "coding"} |->
        AnalyzeCategory(cat, lm.current, lm.previous_7d, lm.previous_30d,
                        od.pricing, od.usage_ranks, now)] @@ <<>>)

-----------------------------------------------------------------------------
(* get_company_scorecard() *)

\* "x or 0" of a nullable number
OrZero(o) == IF o = None THEN 0 ELSE Val(o)

RECURSIVE SumSeq(_)
SumSeq(seq) == IF seq = <<>> THEN 0 ELSE Head(seq) + SumSeq(Tail(seq))

\* the values of seq without repetition, in the order of first occurrence
RECURSIVE DedupeFrom(_, _)
DedupeFrom(seq, seen) ==
    IF seq = <<>> THEN <<>>
    ELSE IF Head(seq) \in seen THEN DedupeFrom(Tail(seq), seen)
         ELSE <<Head(seq)>> \o DedupeFrom(Tail(seq), seen \cup {Head(seq)})

\* mutant of FirstById: every row passes
FirstById_NoDedupe(rows, seen) == rows

\* the rows that pass "if r['model_id'] not in seen": the first row of each
\* identifier
RECURSIVE FirstById(_, _)
FirstById(rows, seen) ==
    IF rows = <<>> THEN <<>>
    ELSE IF Head(rows).model_id \in seen THEN FirstById(Tail(rows), seen)
         ELSE <<Head(rows)>> \o FirstById(Tail(rows), seen \cup {Head(rows).model_id})

\* min(rows, key=rank): the first row of least rank
MinRankRow(rows) ==
    rows[CHOOSE i \in DOMAIN rows :
            /\ \A j \in DOMAIN rows : rows[i].rank <= rows[j].rank
            /\ \A j \in 1..(i-1) : rows[j].rank > rows[i].rank]

\* round(n / d) to the nearest integer, ties to even, for n >= 0 and d > 0
RoundHalfEven(n, d) ==
    LET q == n \div d
        r == n % d
    IN  IF 2 * r < d THEN q
        ELSE IF 2 * r > d THEN q + 1
        ELSE IF q % 2 = 0 THEN q ELSE q + 1

\* mutant of MarketSharePct: the fraction, not the percentage
MarketSharePct_Fraction(market_volume, total_volume) ==
    IF total_volume > 0 THEN <<market_volume, total_volume>> ELSE <<0, 1>>

\* entry["market_share_pct"] as the quotient <<numerator, denominator>>
MarketSharePct(market_volume, total_volume) ==
    IF total_volume > 0 THEN <<market_volume * 100, total_volume>> ELSE <<0, 1>>

\* round(base + share * 1.5, 1) in tenths, base an integer
RoundedTenths(base, share) ==
    RoundHalfEven(10 * base * share[2] + 15 * share[1], share[2])

\* entry["investment_score"], in tenths
InvestmentScore(momentum, share, category_leader, top10) ==
    RoundedTenths(momentum * 2 + (IF category_leader THEN 10 ELSE 0) + top10 * 3,
                  share)

NegInvestment(e) == -e.investment_score
HasBestRank(e) == e.best_rank # None

\* result.sort(key=lambda x: -x["investment_score"])
SortByInvestment(entries) ==
    SortByKey(entries, AsSeq([i \in DOMAIN entries |-> NegInvestment(entries[i])]))

\* get_company_scorecard(analysis_result, window).  investment_score is in
\* tenths, market_share_pct and revenue_proxy are quotients; top_model is the
\* identifier of the flagship row.
GetCompanyScorecard(ar, window) ==
    LET gen  == ar.rankings["general"]
        cod  == ar.rankings["coding"]
        all  == gen \o cod
        uniq == FirstById(all, {})
        total_volume == SumSeq([i \in DOMAIN uniq |-> OrZero(uniq[i].or_volume)])
        leader_labs ==
            {MinRankRow(rows).lab : rows \in {x \in {gen, cod} : x # <<>>}}
        fr == IF window \in DOMAIN ar.fast_risers
              THEN ar.fast_risers[window]["general"] \o ar.fast_risers[window]["coding"]
              ELSE <<>>
        ns == IF window \in DOMAIN ar.new_stars THEN ar.new_stars[window] ELSE <<>>
        touched == all \o fr \o [i \in DOMAIN ns |-> [lab |-> ns[i].lab]]
        labs == DedupeFrom([i \in DOMAIN touched |-> touched[i].lab], {})
        Entry(lab) ==
            LET ofLab(r)  == r.lab = lab
                top10(r)  == r.lab = lab /\ r.rank <= 10
                top30(r)  == r.lab = lab /\ r.rank <= 30
                oss(r)    == r.lab = lab /\ r.is_open_source
                closed(r) == r.lab = lab /\ ~r.is_open_source
                mine      == SelectSeq(all, ofLab)
                mineUniq  == SelectSeq(uniq, ofLab)
                flagship  == IF mine = <<>> THEN None ELSE Some(MinRankRow(mine))
                market_volume ==
                    SumSeq([i \in DOMAIN mineUniq |-> OrZero(mineUniq[i].or_volume)])
                revenue ==
                    SumSeq([i \in DOMAIN mineUniq |->
                              OrZero(mineUniq[i].or_volume)
                              * (OrZero(mineUniq[i].price_input)
                                 + OrZero(mineUniq[i].price_output))])
                top10_general == Len(SelectSeq(gen, top10))
                top10_coding  == Len(SelectSeq(cod, top10))
                top30_general == Len(SelectSeq(gen, top30))
                top30_coding  == Len(SelectSeq(cod, top30))
                fast_risers   == Len(SelectSeq(fr, ofLab))
                new_stars     == Len(SelectSeq(ns, ofLab))
                share         == MarketSharePct(market_volume, total_volume)
                leader        == lab \in leader_labs
                momentum      == fast_risers * 3 + new_stars * 5
            IN  [ lab               |-> lab,
                  top10_general     |-> top10_general,
                  top10_coding      |-> top10_coding,
                  top30_general     |-> top30_general,
                  top30_coding      |-> top30_coding,
                  fast_risers       |-> fast_risers,
                  new_stars         |-> new_stars,
                  best_rank         |-> IF flagship = None THEN None
                                        ELSE Some(Val(flagship).rank),
                  top_model         |-> IF flagship = None THEN None
                                        ELSE Some(Val(flagship).model_id),
                  oss_count         |-> Len(SelectSeq(uniq, oss)),
                  proprietary_count |-> Len(SelectSeq(uniq, closed)),
                  market_volume     |-> market_volume,
                  revenue_proxy     |-> <<revenue, 2000000>>,
                  market_share_pct  |-> share,
                  category_leader   |-> leader,
                  momentum_score    |-> momentum + top30_general + top30_coding,
                  investment_score  |->
                      InvestmentScore(momentum, share, leader,
                                      top10_general + top10_coding) ]
        entries == AsSeq([i \in DOMAIN labs |-> Entry(labs[i])])
    IN  SortByInvestment(SelectSeq(entries, HasBestRank))

-----------------------------------------------------------------------------
(* get_model_picks() *)

\* "if m.get(k)" of a nullable number: present and non-zero
Truthy(o) == o # None /\ Val(o) # 0

\* "w['model_id'] if w else None": the exclude argument of the runner-up call
ExcludeOf(w) == IF w = None THEN None ELSE Some(Val(w).model_id)

\* m["model_id"] != exclude
NotExcluded(m, exclude) == Some(m.model_id) # exclude

\* "max(valid, key=...) if valid else None", keys[i] being the key of
\* valid[i]: the first row of greatest key
MaxByKey(valid, keys) ==
    IF valid = <<>> THEN None
    ELSE Some(valid[CHOOSE i \in DOMAIN valid :
                       /\ \A j \in DOMAIN valid : keys[j] <= keys[i]
                       /\ \A j \in 1..(i - 1) : keys[j] < keys[i]])

\* max(valid, key=lambda x: x["elo"]) if valid else None
MaxByElo(valid) ==
    MaxByKey(valid, AsSeq([i \in DOMAIN valid |-> Val(valid[i].elo)]))

\* max(with_vol, key=lambda x: x["or_volume"]) if with_vol else None
MaxByVolume(with_vol) ==
    MaxByKey(with_vol, AsSeq([i \in DOMAIN with_vol |-> Val(with_vol[i].or_volume)]))

\* all_models: the rows of general then coding, first row of each identifier
AllModels(rankings) ==
    FirstById(CatRows(rankings, "general") \o CatRows(rankings, "coding"), {})

IsCloud(m) == ~m.is_open_source
IsOss(m) == m.is_open_source
\* mutant of Cloud: every row of the pool, whatever its licence
Cloud_Unfiltered(all_models) == all_models

\* the partitions cloud and oss
Cloud(all_models) == SelectSeq(all_models, IsCloud)
Oss(all_models) == SelectSeq(all_models, IsOss)

\* m.get("elo")
HasElo(m) == Truthy(m.elo)

\* best_by_elo
BestByElo(lst, exclude) ==
    LET ok(m) == HasElo(m) /\ NotExcluded(m, exclude)
    IN  MaxByElo(SelectSeq(lst, ok))

\* valid of best_by_value
ValueValid(lst, exclude) ==
    LET ok(m) == HasElo(m) /\ Truthy(m.price_input) /\ NotExcluded(m, exclude)
    IN  SelectSeq(lst, ok)

\* max and min of a non-empty sequence of numbers
SeqMax(xs) == CHOOSE x \in {xs[i] : i \in DOMAIN xs} : \A i \in DOMAIN xs : xs[i] <= x
SeqMin(xs) == CHOOSE x \in {xs[i] : i \in DOMAIN xs} : \A i \in DOMAIN xs : x <= xs[i]

\* max_elo, min_elo, max_p, min_p, max_vol, min_vol over valid
PoolStats(valid) ==
    [ max_elo |-> SeqMax([i \in DOMAIN valid |-> Val(valid[i].elo)]),
      min_elo |-> SeqMin([i \in DOMAIN valid |-> Val(valid[i].elo)]),
      max_p   |-> SeqMax([i \in DOMAIN valid |-> Val(valid[i].price_input)]),
      min_p   |-> SeqMin([i \in DOMAIN valid |-> Val(valid[i].price_input)]),
      max_vol |-> SeqMax([i \in DOMAIN valid |-> OrZero(valid[i].or_volume)]),
      min_vol |-> SeqMin([i \in DOMAIN valid |-> OrZero(valid[i].or_volume)]) ]

\* mutant of EloNorm: the distance to the maximum, as for the price
EloNorm_Inverted(m, st) ==
    IF st.max_elo # st.min_elo
    THEN <<st.max_elo - Val(m.elo), st.max_elo - st.min_elo>> ELSE <<1, 1>>

\* the three factors of _score, as quotients <<numerator, denominator>>
EloNorm(m, st) ==
    IF st.max_elo # st.min_elo
    THEN <<Val(m.elo) - st.min_elo, st.max_elo - st.min_elo>> ELSE <<1, 1>>
PriceNorm(m, st) ==
    IF st.max_p # st.min_p
    THEN <<st.max_p - Val(m.price_input), st.max_p - st.min_p>> ELSE <<1, 1>>
VolNorm(m, st) ==
    IF st.max_vol # st.min_vol
    THEN <<OrZero(m.or_volume) - st.min_vol, st.max_vol - st.min_vol>> ELSE <<0, 1>>

\* 0.5 * elo_norm + 0.3 * price_norm + 0.2 * vol_norm, as a quotient
Blend(e, p, v) ==
    << 5 * e[1] * p[2] * v[2] + 3 * p[1] * e[2] * v[2] + 2 * v[1] * e[2] * p[2],
       10 * e[2] * p[2] * v[2] >>

\* _score(m) with its factors
ScoreOf(m, st) ==
    [ model_id   |-> m.model_id,
      elo_norm   |-> EloNorm(m, st),
      price_norm |-> PriceNorm(m, st),
      vol_norm   |-> VolNorm(m, st),
      score      |-> Blend(EloNorm(m, st), PriceNorm(m, st), VolNorm(m, st)) ]

\* _score of every row of valid
ScoresWith(valid, st) == AsSeq([i \in DOMAIN valid |-> ScoreOf(valid[i], st)])
ValueScores(valid) ==
    IF valid = <<>> THEN <<>> ELSE ScoresWith(valid, PoolStats(valid))

\* x >= y and x > y on two _score values; the scores of one pool have the
\* same denominator
BlendGE(x, y) == IF x[2] = y[2] THEN x[1] >= y[1] ELSE ScoreGE(x, y)
BlendGT(x, y) == IF x[2] = y[2] THEN x[1] > y[1] ELSE ScoreGT(x, y)

\* max(valid, key=_score): the first row of greatest score
MaxByScore(valid, scores) ==
    IF valid = <<>> THEN None
    ELSE Some(valid[CHOOSE i \in DOMAIN valid :
                       /\ \A j \in DOMAIN valid : BlendGE(scores[i].score, scores[j].score)
                       /\ \A j \in 1..(i - 1) : BlendGT(scores[i].score, scores[j].score)])

\* best_by_value
BestByValue(lst, exclude) ==
    MaxByScore(ValueValid(lst, exclude), ValueScores(ValueValid(lst, exclude)))

\* best_coding: the rows come from rankings["coding"], not from lst
BestCoding(lst, exclude, rankings) ==
    LET ok(m) == /\ m.model_id \in IdsOf(lst)
                 /\ NotExcluded(m, exclude)
                 /\ HasElo(m)
    IN  MaxByElo(SelectSeq(FirstById(CatRows(rankings, "coding"), {}), ok))

\* the default of min_ctx and of top_n
MinCtx == 128000
TopN == 30

\* mutant of BestLongContext: no test of context_length
BestLongContext_NoContextTest(lst, min_ctx, exclude) ==
    LET ok(m) == HasElo(m) /\ NotExcluded(m, exclude)
    IN  MaxByElo(SelectSeq(lst, ok))

\* best_long_context
BestLongContext(lst, min_ctx, exclude) ==
    LET ok(m) == /\ HasElo(m)
                 /\ OrZero(m.context_length) >= min_ctx
                 /\ NotExcluded(m, exclude)
    IN  MaxByElo(SelectSeq(lst, ok))

\* sorted(rows, key=lambda x: -x["elo"])
SortByNegElo(rows) ==
    SortByKey(rows, AsSeq([i \in DOMAIN rows |-> -Val(rows[i].elo)]))

\* mutant of TopRows: no cut to the first top_n rows
TopRows_NoCut(valid_elo, top_n) == valid_elo

\* valid_elo[:top_n]
TopRows(valid_elo, top_n) == Take(valid_elo, top_n)

\* most_adopted: exclude is applied after the cut to the first top_n rows
MostAdopted(lst, top_n, exclude) ==
    LET ok(m) == Truthy(m.or_volume) /\ NotExcluded(m, exclude)
    IN  MaxByVolume(SelectSeq(TopRows(SortByNegElo(SelectSeq(lst, HasElo)), top_n), ok))

\* a scenario's winner and runner-up: the selection, then the selection again
\* with exclude = the winner's identifier
EloPair(lst) ==
    LET w == BestByElo(lst, None) IN <<w, BestByElo(lst, ExcludeOf(w))>>
ValuePair(lst) ==
    LET w == BestByValue(lst, None) IN <<w, BestByValue(lst, ExcludeOf(w))>>
CodingPair(lst, rankings) ==
    LET w == BestCoding(lst, None, rankings)
    IN  <<w, BestCoding(lst, ExcludeOf(w), rankings)>>
LongContextPair(lst) ==
    LET w == BestLongContext(lst, MinCtx, None)
    IN  <<w, BestLongContext(lst, MinCtx, ExcludeOf(w))>>
AdoptedPair(lst) ==
    LET w == MostAdopted(lst, TopN, None)
    IN  <<w, MostAdopted(lst, TopN, ExcludeOf(w))>>

\* the dict picks, from the pairs of the ten scenario keys
AssemblePicks(bc, bo, bvc, bvo, bcc, bco, blcc, blco, mac, mao) ==
    [ best_cloud             |-> bc[1],   best_cloud_ru          |-> bc[2],
      best_oss               |-> bo[1],   best_oss_ru            |-> bo[2],
      best_value_cloud       |-> bvc[1],  best_value_cloud_ru    |-> bvc[2],
      best_value_oss         |-> bvo[1],  best_value_oss_ru      |-> bvo[2],
      best_coding_cloud      |-> bcc[1],  best_coding_cloud_ru   |-> bcc[2],
      best_coding_oss        |-> bco[1],  best_coding_oss_ru     |-> bco[2],
      best_long_ctx_cloud    |-> blcc[1], best_long_ctx_cloud_ru |-> blcc[2],
      best_long_ctx_oss      |-> blco[1], best_long_ctx_oss_ru   |-> blco[2],
      most_adopted_cloud     |-> mac[1],  most_adopted_cloud_ru  |-> mac[2],
      most_adopted_oss       |-> mao[1],  most_adopted_oss_ru    |-> mao[2] ]

PicksOf(cloud, oss, rankings) ==
    AssemblePicks(EloPair(cloud), EloPair(oss),
                  ValuePair(cloud), ValuePair(oss),
                  CodingPair(cloud, rankings), CodingPair(oss, rankings),
                  LongContextPair(cloud), LongContextPair(oss),
                  AdoptedPair(cloud), AdoptedPair(oss))

\* get_model_picks(analysis_result), rankings = analysis_result["rankings"]
GetModelPicks(rankings) ==
    PicksOf(Cloud(AllModels(rankings)), Oss(AllModels(rankings)), rankings)

-----------------------------------------------------------------------------
(* The analysis pipeline *)

MatchIdle ==
    /\ m_target = <<>> /\ m_keys = <<>>
    /\ m_pricing = NotRun /\ m_usage = NotRun

Init ==
    /\ lmarena \in
         { [current |-> [general |-> g, coding |-> c],
            previous_7d |-> p7, previous_30d |-> p30] :
             g \in CurrentGeneral, c \in CurrentCoding,
             p7 \in Baselines7d, p30 \in Baselines30d }
    /\ or_data \in Catalogues
    /\ result = None
    /\ scorecard = None
    /\ pc = "start"
    /\ MatchIdle
    /\ PicksIdle
    /\ ValueIdle
    /\ SideIdle

Analyze ==
    /\ pc = "start"
    /\ \E now \in NowSet : result' = AnalyzeResult(lmarena, or_data, now)
    /\ pc' = "analyzed"
    /\ UNCHANGED <<lmarena, or_data, scorecard>>
    /\ UNCHANGED matchVars
    /\ UNCHANGED <<pickVars, valueVars>>
    /\ UNCHANGED sideVars

\* get_company_scorecard(result, window), window = "7d" by default
Scorecard ==
    /\ pc = "analyzed"
    /\ \E window \in {"7d", "30d"} :
          scorecard' = [window |-> window,
                        entries |-> GetCompanyScorecard(result, window)]
    /\ pc' = "scored"
    /\ UNCHANGED <<lmarena, or_data, result>>
    /\ UNCHANGED matchVars
    /\ UNCHANGED <<pickVars, valueVars>>
    /\ UNCHANGED sideVars

\* get_model_picks(result)
Picks ==
    /\ pc = "scored"
    /\ picks' = GetModelPicks(result.rankings)
    /\ pc' = "picked"
    /\ UNCHANGED <<lmarena, or_data, result, scorecard, p_rankings>>
    /\ UNCHANGED <<matchVars, valueVars, sideVars>>

Next == Analyze \/ Scorecard \/ Picks

Spec == Init /\ [][Next]_vars

-----------------------------------------------------------------------------
(* get_model_picks() runs: the rankings handed to get_model_picks *)

\* a merged row as get_model_picks reads it
PickRow(id, rank, elo, price, vol, ctx, open) ==
    [ model_id       |-> id,
      rank           |-> rank,
      elo            |-> elo,
      price_input    |-> price,
      or_volume      |-> vol,
      context_length |-> ctx,
      is_open_source |-> open ]

\* elo of the row of IdPool[i] at position rank of a ranking: distinct and
\* descending, one value for all, ascending, or with null and zero scores
EloOf(e, i, rank) ==
    CASE e = "desc" -> Some(1500 - rank)
      [] e = "flat" -> Some(1400)
      [] e = "asc"  -> Some(1400 + rank)
      [] OTHER      -> IF i % 3 = 0 THEN None
                       ELSE IF i % 3 = 1 THEN Some(0) ELSE Some(1400 + i)

\* price_input, or_volume and context_length of IdPool[i]: absent, one value
\* for all, or varied with null and zero values
PriceOf(p, i) ==
    CASE p = "none"   -> None
      [] p = "flat"   -> Some(20)
      [] p = "varied" -> IF i % 5 = 0 THEN None ELSE Some(5 * (1 + (i % 4)))
      [] OTHER        -> IF i % 2 = 0 THEN Some(0) ELSE Some(10 + i)
VolOf(v, i) ==
    CASE v = "none" -> None
      [] v = "flat" -> Some(30)
      [] OTHER      -> Some(10 * ((i * 7) % 5))
CtxOf(c, i) ==
    CASE c = "none" -> None
      [] OTHER      -> IF i % 3 = 0 THEN Some(32000)
                       ELSE IF i % 3 = 1 THEN Some(MinCtx) ELSE Some(200000)

\* rankings[cat] over the identifiers IdPool[idx[k]], ranked 1, 2, ...
PickBoard(idx, e, p, v, c) ==
    AsSeq([k \in 1..Len(idx) |->
        PickRow(IdPool[idx[k]], k, EloOf(e, idx[k], k), PriceOf(p, idx[k]),
                VolOf(v, idx[k]), CtxOf(c, idx[k]), IsOpenSourceFor(IdPool[idx[k]]))])

SmallRankings ==
    { [general |-> PickBoard(g, ep[1], p, v, c),
       coding  |-> PickBoard(cd, ep[2], p, v, c)] :
        g  \in {<<>>, <<1, 2, 7, 9>>, FullOrder},
        cd \in {<<>>, <<2, 9, 1, 10>>, RevOrder},
        ep \in {<<"desc", "desc">>, <<"flat", "flat">>, <<"holes", "desc">>,
                <<"desc", "holes">>, <<"holes", "holes">>, <<"asc", "desc">>},
        p  \in {"none", "flat", "varied", "zeros"},
        v  \in {"none", "flat", "varied"},
        c  \in {"none", "varied"} }

\* number of rows of a ranking longer than the cut top_n of most_adopted
BigSize == 32

\* the identifier prefix-NN
DigitSeq == <<"0","1","2","3","4","5","6","7","8","9">>
GenId(prefix, n) ==
    prefix \o <<"-", DigitSeq[(n \div 10) + 1], DigitSeq[(n % 10) + 1]>>

\* a ranking of BigSize rows of one partition, usage volume 10 * k known for
\* the positions k of volAt only
BigBoard(prefix, e, volAt) ==
    AsSeq([k \in 1..BigSize |->
        PickRow(GenId(prefix, k), k, EloOf(e, k, k), Some(10),
                IF k \in volAt THEN Some(10 * k) ELSE None,
                None, GetIsOpenSource(GenId(prefix, k)))])

BigRankings ==
    { [general |-> BigBoard(prefix, e, volAt), coding |-> <<>>] :
        prefix \in {<<"x">>, <<"l","l","a","m","a">>},
        e      \in {"desc", "asc", "flat"},
        volAt  \in {{}, {31}, {5, 31}, {2, 10, 31}, {1, 2, 32}, {30, 31, 32}} }

InitPicks ==
    /\ p_rankings \in SmallRankings \cup BigRankings
    /\ picks = NotRun
    /\ PipeIdle
    /\ MatchIdle
    /\ ValueIdle
    /\ SideIdle

CallGetModelPicks ==
    /\ picks = NotRun
    /\ picks' = GetModelPicks(p_rankings)
    /\ UNCHANGED p_rankings
    /\ UNCHANGED <<pipeVars, matchVars, valueVars>>
    /\ UNCHANGED sideVars

NextPicks == CallGetModelPicks

SpecPicks == InitPicks /\ [][NextPicks]_vars

-----------------------------------------------------------------------------
(* best_by_value() runs: a partition scored, one quality score raised, the  *)
(* partition scored again                                                   *)

\* the candidates: elo, price_input and or_volume
CandTypes ==
    << [elo |-> Some(1400), price |-> Some(10), vol |-> None],
       [elo |-> Some(1400), price |-> Some(20), vol |-> Some(30)],
       [elo |-> Some(1410), price |-> Some(10), vol |-> Some(30)],
       [elo |-> Some(1410), price |-> Some(20), vol |-> None],
       [elo |-> Some(1420), price |-> Some(20), vol |-> Some(30)],
       [elo |-> Some(1420), price |-> Some(10), vol |-> Some(10)],
       [elo |-> Some(1410), price |-> None, vol |-> Some(50)] >>

\* greatest length of the partition
MaxCand == 3

\* the partitions: candidates of the given types, identified by position
CandList(types) ==
    AsSeq([k \in 1..Len(types) |->
        PickRow(GenId(<<"x">>, k), k, CandTypes[types[k]].elo,
                CandTypes[types[k]].price, CandTypes[types[k]].vol, None, FALSE)])
CandLists ==
    UNION {{CandList(t) : t \in [1..n -> DOMAIN CandTypes]} : n \in 1..MaxCand}

\* the amounts a quality score is raised by
RaiseSteps == {5, 10, 25}

InitValue ==
    /\ v_lst \in CandLists
    /\ v_run = NotRun
    /\ v_prev = NotRun
    /\ PipeIdle
    /\ MatchIdle
    /\ PicksIdle
    /\ SideIdle

\* best_by_value(v_lst), with the _score of every valid candidate
CallBestByValue ==
    /\ v_run = NotRun
    /\ v_run' = [scores |-> ValueScores(ValueValid(v_lst, None)),
                 winner |-> BestByValue(v_lst, None)]
    /\ UNCHANGED <<v_lst, v_prev>>
    /\ UNCHANGED <<pipeVars, matchVars, pickVars>>
    /\ UNCHANGED sideVars

\* the quality score of one valid candidate raised, everything else kept
RaiseQuality ==
    /\ v_run # NotRun
    /\ v_prev = NotRun
    /\ \E k \in DOMAIN v_lst : \E d \in RaiseSteps :
          /\ HasElo(v_lst[k])
          /\ Truthy(v_lst[k].price_input)
          /\ v_lst' = [v_lst EXCEPT ![k].elo = Some(Val(@) + d)]
          /\ v_prev' = [scores |-> v_run.scores, winner |-> v_run.winner,
                        raised |-> v_lst[k].model_id]
    /\ v_run' = NotRun
    /\ UNCHANGED <<pipeVars, matchVars, pickVars>>
    /\ UNCHANGED sideVars

NextValue == CallBestByValue \/ RaiseQuality

SpecValue == InitValue /\ [][NextValue]_vars

-----------------------------------------------------------------------------
(* analyze() called twice on the same inputs: the logo store of logos.py   *)
(* lies outside the inputs                                                  *)

\* the local url _download_logo returns for a publisher
LogoUrl(company_name) == [dir |-> "/static/logos/", of |-> company_name]

\* get_logo(company_name) when company_logos.json holds the publishers of
\* metadata and the favicon service answers (service_up) or not
GetLogo(company_name, metadata, service_up) ==
    IF company_name = "Unknown" THEN None
    ELSE IF company_name \in metadata THEN Some(LogoUrl(company_name))
    ELSE IF service_up THEN Some(LogoUrl(company_name))
    ELSE None

\* company_logos.json after get_logo was called for the publishers companies
MetadataAfter(companies, metadata, service_up) ==
    IF service_up THEN metadata \cup (companies \ {"Unknown"}) ELSE metadata

\* the merged row with its lab_logo
WithLogo(r, metadata, service_up) ==
    [f \in DOMAIN r \cup {"lab_logo"} |->
        IF f = "lab_logo" THEN GetLogo(r.lab, metadata, service_up) ELSE r[f]]
LogoRows(rows, metadata, service_up) ==
    AsSeq([i \in DOMAIN rows |-> WithLogo(rows[i], metadata, service_up)])

\* the value analyze returns, lab_logo included: the copies {**r, ...} in
\* fast_risers and new_stars carry the lab_logo of the row copied
ResultWithLogos(res, metadata, service_up) ==
    [ rankings    |-> [cat \in {"general", "coding"} |->
                         LogoRows(res.rankings[cat], metadata, service_up)],
      fast_risers |-> [w \in {"7d", "30d"} |->
                         [cat \in {"general", "coding"} |->
                             LogoRows(res.fast_risers[w][cat], metadata, service_up)]],
      new_stars   |-> [w \in {"7d", "30d"} |->
                         LogoRows(res.new_stars[w], metadata, service_up)] ]

\* the publishers of the current rows
LabsOf(lm) ==
    {LabFor(id) : id \in IdsOf(CatRows(lm.current, "general"))
                         \cup IdsOf(CatRows(lm.current, "coding"))}

\* the inputs of the two calls and the logo store before the first
RepeatInputs ==
    { [current |-> [general |-> g, coding |-> c],
       previous_7d |-> p7, previous_30d |-> p30] :
        g   \in {<<>>, Board(FullOrder, 1, 1), Board(<<1, 2, 7>>, 1, 1)},
        c   \in {<<>>, Board(<<2, 9, 1, 10>>, 1, 1)},
        p7  \in {None, [general |-> Board(RevOrder, 1, 1),
                        coding |-> Board(<<9, 2>>, 49, 2)]},
        p30 \in {None, [general |-> Board(FullOrder, 45, 1), coding |-> <<>>]} }
LogoStores == { {}, {"Anthropic", "OpenAI"} }

InitRepeat ==
    /\ lmarena \in RepeatInputs
    /\ or_data \in Catalogues
    /\ logo_meta \in LogoStores
    /\ run1 = NotRun
    /\ run2 = NotRun
    /\ result = None /\ scorecard = None /\ pc = "repeat"
    /\ MatchIdle
    /\ PicksIdle
    /\ ValueIdle
    /\ LabIdle
    /\ OverlapIdle
    /\ FetchIdle
    /\ IndexIdle

\* analyze(lmarena, aa, or_data) at wall-clock time now, the favicon service
\* answering or not
FirstCall ==
    /\ run1 = NotRun
    /\ \E now \in NowSet : \E service_up \in BOOLEAN :
          /\ run1' = ResultWithLogos(AnalyzeResult(lmarena, or_data, now),
                                     logo_meta, service_up)
          /\ logo_meta' = MetadataAfter(LabsOf(lmarena), logo_meta, service_up)
    /\ UNCHANGED <<run2, pipeVars, matchVars, pickVars, valueVars>>
    /\ UNCHANGED <<labVars, overlapVars, fetchVars, indexVars>>

\* the same call again
SecondCall ==
    /\ run1 # NotRun
    /\ run2 = NotRun
    /\ \E now \in NowSet : \E service_up \in BOOLEAN :
          /\ run2' = ResultWithLogos(AnalyzeResult(lmarena, or_data, now),
                                     logo_meta, service_up)
          /\ logo_meta' = MetadataAfter(LabsOf(lmarena), logo_meta, service_up)
    /\ UNCHANGED <<run1, pipeVars, matchVars, pickVars, valueVars>>
    /\ UNCHANGED <<labVars, overlapVars, fetchVars, indexVars>>

NextRepeat == FirstCall \/ SecondCall

SpecRepeat == InitRepeat /\ [][NextRepeat]_vars

-----------------------------------------------------------------------------
(* get_lab_from_model_id() runs: one identifier attributed to a publisher  *)

\* the identifiers attributed: for every rule prefix, the prefix itself, the
\* prefix with a version suffix, behind a provider, in upper case and cut by
\* one character; identifiers without a rule, the empty one, and one with
\* two slashes
LabIdsOf(p) ==
    { p,
      p \o <<"-", "4">>,
      Str_openai \o <<"/">> \o p \o <<"-", "4">>,
      Upper(p) \o <<"-", "X">>,
      SubSeq(p, 1, Len(p) - 1),
      <<"x">> \o p }
LabIds ==
    UNION {LabIdsOf(LabRules[i].prefix) : i \in DOMAIN LabRules}
        \cup { <<>>, <<"z","e","t","a","-","1">>, <<"/">>,
               <<"a","/","b","/">> \o Str_claude }

InitLab ==
    /\ g_id \in {Some(id) : id \in LabIds}
    /\ g_lab = None
    /\ PipeIdle
    /\ MatchIdle
    /\ PicksIdle
    /\ ValueIdle
    /\ RepeatIdle
    /\ OverlapIdle
    /\ FetchIdle
    /\ IndexIdle

CallGetLab ==
    /\ g_lab = None
    /\ g_lab' = Some(GetLabFromModelId(Val(g_id)))
    /\ UNCHANGED g_id
    /\ UNCHANGED <<pipeVars, matchVars, pickVars, valueVars, repeatVars>>
    /\ UNCHANGED <<overlapVars, fetchVars, indexVars>>

NextLab == CallGetLab

SpecLab == InitLab /\ [][NextLab]_vars

-----------------------------------------------------------------------------
(* _token_overlap() runs: two token sets scored in both orders *)

\* the tokens the sets are made of
TokenPool == {Str_gpt, Str_turbo, Str_claude, <<"5">>}
TokenSets == SUBSET TokenPool

InitOverlap ==
    /\ t_a \in {Some(a) : a \in TokenSets}
    /\ t_b \in {Some(b) : b \in TokenSets}
    /\ t_ab = None
    /\ t_ba = None
    /\ PipeIdle
    /\ MatchIdle
    /\ PicksIdle
    /\ ValueIdle
    /\ RepeatIdle
    /\ LabIdle
    /\ FetchIdle
    /\ IndexIdle

\* _token_overlap(a, b)
CallOverlap ==
    /\ t_ab = None
    /\ t_ab' = Some(TokenOverlap(Val(t_a), Val(t_b)))
    /\ UNCHANGED <<t_a, t_b, t_ba>>
    /\ UNCHANGED <<pipeVars, matchVars, pickVars, valueVars, repeatVars, labVars>>
    /\ UNCHANGED <<fetchVars, indexVars>>

\* _token_overlap(b, a)
CallOverlapSwapped ==
    /\ t_ba = None
    /\ t_ba' = Some(TokenOverlap(Val(t_b), Val(t_a)))
    /\ UNCHANGED <<t_a, t_b, t_ab>>
    /\ UNCHANGED <<pipeVars, matchVars, pickVars, valueVars, repeatVars, labVars>>
    /\ UNCHANGED <<fetchVars, indexVars>>

NextOverlap == CallOverlap \/ CallOverlapSwapped

SpecOverlap == InitOverlap /\ [][NextOverlap]_vars

-----------------------------------------------------------------------------
(* lmarena.fetch() (src/fetchers/lmarena.py): the cache, the timestamped    *)
(* snapshots and the fixed snapshot files.  A snapshot is represented by    *)
(* the time its rankings were scraped; f_files starts without files and     *)
(* only fetch writes it.                                                    *)

CacheTtl == 7200
Snapshot7dTtl == 7 * SecondsPerDay
Snapshot30dTtl == 30 * SecondsPerDay
\* "within 3 days" of _get_closest_snapshot
ClosestWithin == 3 * SecondsPerDay

NoFiles == [cache |-> None, snapshots |-> {}, fixed_7d |-> None, fixed_30d |-> None]

\* _load_cache at time now: the cached data, None without a file or when the
\* file is older than CacheTtl
LoadCache(files, now) ==
    IF files.cache = None THEN None
    ELSE IF now - Val(files.cache).mtime > CacheTtl THEN None
    ELSE Some(Val(files.cache).data)

AbsDiff(a, b) == IF a >= b THEN a - b ELSE b - a

\* _get_closest_snapshot(target_seconds_ago) at time now: the snapshots it
\* can return, those of least distance to now - target_seconds_ago when that
\* distance is below three days (os.listdir fixes no order among equals)
ClosestSnapshots(files, now, target_seconds_ago) ==
    {ts \in files.snapshots :
        /\ \A u \in files.snapshots :
              AbsDiff(ts, now - target_seconds_ago) <= AbsDiff(u, now - target_seconds_ago)
        /\ AbsDiff(ts, now - target_seconds_ago) < ClosestWithin}

\* _get_closest_snapshot(...) or _load_snapshot(fixed file): the values
\* previous_7d / previous_30d can take
PreviousOf(files, now, target_seconds_ago, fixed) ==
    IF ClosestSnapshots(files, now, target_seconds_ago) # {}
    THEN {Some(ts) : ts \in ClosestSnapshots(files, now, target_seconds_ago)}
    ELSE {fixed}

\* _rotate_snapshot: the fixed file after the call
RotateSnapshot(fixed, now, ttl) ==
    IF fixed = None \/ now - Val(fixed) >= ttl THEN Some(now) ELSE fixed

\* the files after a fetch that scraped at time now and returned data
FilesAfter(files, now, data) ==
    [ cache     |-> Some([mtime |-> now, data |-> data]),
      snapshots |-> files.snapshots \cup {now},
      fixed_7d  |-> RotateSnapshot(files.fixed_7d, now, Snapshot7dTtl),
      fixed_30d |-> RotateSnapshot(files.fixed_30d, now, Snapshot30dTtl) ]

\* greatest number of fetch calls of a run
MaxFetches == 4
\* the time between two calls: 1 hour, 3 hours, 4, 7 and 30 days
Waits == {3600, 10800, 4 * SecondsPerDay, 7 * SecondsPerDay, 30 * SecondsPerDay}

InitFetch ==
    /\ f_clock = 100 * SecondsPerDay
    /\ f_files = NoFiles
    /\ f_out = NotRun
    /\ f_calls = 0
    /\ PipeIdle
    /\ MatchIdle
    /\ PicksIdle
    /\ ValueIdle
    /\ RepeatIdle
    /\ LabIdle
    /\ OverlapIdle
    /\ IndexIdle

\* fetch() answered from the cache
FetchCached ==
    /\ f_calls < MaxFetches
    /\ \E d \in Waits :
          /\ LoadCache(f_files, f_clock + d) # None
          /\ f_clock' = f_clock + d
          /\ f_out' = [ scraped      |-> FALSE,
                        previous_7d  |-> Val(LoadCache(f_files, f_clock + d)).previous_7d,
                        previous_30d |-> Val(LoadCache(f_files, f_clock + d)).previous_30d,
                        fetched_at   |-> Val(LoadCache(f_files, f_clock + d)).fetched_at ]
    /\ f_calls' = f_calls + 1
    /\ UNCHANGED f_files
    /\ UNCHANGED <<pipeVars, matchVars, pickVars, valueVars>>
    /\ UNCHANGED <<repeatVars, labVars, overlapVars, indexVars>>

\* fetch() that scrapes the leaderboard and writes the files
FetchScrape ==
    /\ f_calls < MaxFetches
    /\ \E d \in Waits :
          /\ LoadCache(f_files, f_clock + d) = None
          /\ f_clock' = f_clock + d
          /\ \E p7 \in PreviousOf(f_files, f_clock + d, Snapshot7dTtl, f_files.fixed_7d) :
             \E p30 \in PreviousOf(f_files, f_clock + d, Snapshot30dTtl, f_files.fixed_30d) :
                /\ f_out' = [ scraped |-> TRUE, previous_7d |-> p7,
                              previous_30d |-> p30, fetched_at |-> f_clock + d ]
                /\ f_files' = FilesAfter(f_files, f_clock + d,
                                 [ previous_7d |-> p7, previous_30d |-> p30,
                                   fetched_at |-> f_clock + d ])
    /\ f_calls' = f_calls + 1
    /\ UNCHANGED <<pipeVars, matchVars, pickVars, valueVars>>
    /\ UNCHANGED <<repeatVars, labVars, overlapVars, indexVars>>

NextFetch == FetchCached \/ FetchScrape

SpecFetch == InitFetch /\ [][NextFetch]_vars

-----------------------------------------------------------------------------
(* index() (src/app.py): the per-section sorting step applied to the value  *)
(* analyze() returned                                                       *)

\* sort_map.get(sort_by, "rank")
SortMap(sort_by) ==
    CASE sort_by = "rank"          -> "rank"
      [] sort_by = "elo"           -> "elo"
      [] sort_by = "delta"         -> "rank_delta"
      [] sort_by = "price"         -> "price_input"
      [] sort_by = "days_in_board" -> "days_in_board"
      [] sort_by = "volume"        -> "or_volume"
      [] OTHER                     -> "rank"

\* float('inf'): above every key
KeyInfinity == 1000000000

\* x.get(sort_key)
FieldOf(x, sort_key) == IF sort_key = "rank" THEN Some(x.rank) ELSE x[sort_key]

\* the key of sort_list, for a list sorted ascending: with reverse=True the
\* stable descending order by key is the stable ascending order by -key, and
\* the key -inf of a null field becomes +inf
SortKeyOf(x, sort_key, reverse) ==
    IF FieldOf(x, sort_key) = None THEN KeyInfinity
    ELSE IF reverse THEN -Val(FieldOf(x, sort_key))
    ELSE Val(FieldOf(x, sort_key))

\* sort_list(items, sort_by, sort_order): items after items.sort(...)
SortList(items, sort_by, sort_order) ==
    SortByKey(items,
              AsSeq([i \in DOMAIN items |->
                        SortKeyOf(items[i], SortMap(sort_by), sort_order = "desc")]))

\* "for cat in data['new_stars'].get(window, {})" iterates over the rows of
\* the list new_stars[window], and data["new_stars"][window][cat] indexes
\* that list with a row: TypeError as soon as a list has a row
NewStarsLoopRaises(data) ==
    data.new_stars["7d"] # <<>> \/ data.new_stars["30d"] # <<>>

\* the three loops of the sorting step: the sections as the step leaves them
\* and whether it raised
SortSections(data, req) ==
    [ raised      |-> NewStarsLoopRaises(data),
      rankings    |-> [cat \in {"general", "coding"} |->
                         SortList(data.rankings[cat], req.sort_lb, req.order_lb)],
      fast_risers |-> [w \in {"7d", "30d"} |->
                         [cat \in {"general", "coding"} |->
                             SortList(data.fast_risers[w][cat],
                                      req.sort_fr, req.order_fr)]],
      new_stars   |-> data.new_stars ]

\* the sort arguments of a request: the defaults, every sort key in both
\* directions, and an unknown key
SortBys == {"rank", "elo", "delta", "price", "days_in_board", "volume", "votes"}
IndexRequests ==
    { [sort_lb |-> "rank", order_lb |-> "asc", sort_fr |-> "delta",
       order_fr |-> "desc", sort_ns |-> "rank", order_ns |-> "asc"] }
    \cup
    { [sort_lb |-> by, order_lb |-> o, sort_fr |-> by,
       order_fr |-> o, sort_ns |-> by, order_ns |-> o] :
          by \in SortBys, o \in {"asc", "desc"} }
\* the results sorted
IndexData ==
    {AnalyzeResult(lm, od, 10 * SecondsPerDay) : lm \in RepeatInputs, od \in Catalogues}

InitIndex ==
    /\ s_req \in IndexRequests
    /\ s_data \in IndexData
    /\ s_out = NotRun
    /\ PipeIdle
    /\ MatchIdle
    /\ PicksIdle
    /\ ValueIdle
    /\ RepeatIdle
    /\ LabIdle
    /\ OverlapIdle
    /\ FetchIdle

SortStep ==
    /\ s_out = NotRun
    /\ s_out' = SortSections(s_data, s_req)
    /\ UNCHANGED <<s_req, s_data>>
    /\ UNCHANGED <<pipeVars, matchVars, pickVars, valueVars>>
    /\ UNCHANGED <<repeatVars, labVars, overlapVars, fetchVars>>

NextIndex == SortStep

SpecIndex == InitIndex /\ [][NextIndex]_vars

-----------------------------------------------------------------------------
(* Properties of analyze() *)

Analyzed == pc # "start" /\ pc # "idle"
CatSet == {"general", "coding"}
WinSet == {"7d", "30d"}

\* the input rows of a category, the baseline rows of a window and category
CurRows(c) == CatRows(lmarena.current, c)
BaseRows(w, c) ==
    CatRows(IF w = "7d" THEN lmarena.previous_7d ELSE lmarena.previous_30d, c)
\* the ranks the baseline of (w, c) gives to identifier id
BaseRanks(w, c, id) ==
    {BaseRows(w, c)[j].rank : j \in {k \in DOMAIN BaseRows(w, c) :
                                        BaseRows(w, c)[k].model_id = id}}
\* one row per current entry, in order, with its identifier and rank
RowsFollowCurrent(c) ==
    /\ Len(result.rankings[c]) = Len(CurRows(c))
    /\ \A i \in DOMAIN CurRows(c) :
          /\ result.rankings[c][i].model_id = CurRows(c)[i].model_id
          /\ result.rankings[c][i].rank = CurRows(c)[i].rank

\* C1: a row of rankings[c] whose identifier occurs in the 7-day baseline of
\* c has that baseline rank as prev_rank and rank_delta = prev_rank - rank;
\* any other row has prev_rank and rank_delta null.  Nothing else (the 30-day
\* baseline, the other category's baseline) enters the two fields.
C1_RankDeltaFrom7dBaseline ==
    Analyzed =>
        \A c \in CatSet :
            /\ RowsFollowCurrent(c)
            /\ \A i \in DOMAIN result.rankings[c] :
                  LET r     == result.rankings[c][i]
                      ranks == BaseRanks("7d", c, r.model_id)
                  IN  IF ranks # {}
                      THEN /\ r.prev_rank # None
                           /\ Val(r.prev_rank) \in ranks
                           /\ r.rank_delta = Some(Val(r.prev_rank) - r.rank)
                      ELSE r.prev_rank = None /\ r.rank_delta = None

\* a general row with a positive delta whose identifier has another rank in
\* the 30-day baseline and in the coding 7-day baseline
C1_Witness ==
    /\ Analyzed
    /\ \E i \in DOMAIN result.rankings["general"] :
          LET r == result.rankings["general"][i]
          IN  /\ r.rank_delta # None /\ Val(r.rank_delta) > 0
              /\ BaseRanks("30d", "general", r.model_id) # {}
              /\ Val(r.prev_rank) \notin BaseRanks("30d", "general", r.model_id)
              /\ BaseRanks("7d", "coding", r.model_id) # {}
              /\ Val(r.prev_rank) \notin BaseRanks("7d", "coding", r.model_id)

\* the current rows of c with a positive delta against the baseline of (w, c)
PositiveDelta(w, c, r) ==
    \E b \in BaseRanks(w, c, r.model_id) : b - r.rank > 0

\* C2: fast_risers[w][c] holds only current entries found in the baseline of
\* (w, c) with a delta > 0, is sorted by delta descending, has at most 10
\* entries, and no left-out entry of positive delta has a larger delta than
\* an entry of the list.
C2_FastRisers ==
    Analyzed =>
        \A w \in WinSet : \A c \in CatSet :
            LET L == result.fast_risers[w][c]
            IN  /\ Len(L) <= 10
                /\ \A k \in DOMAIN L :
                      /\ \E i \in DOMAIN CurRows(c) :
                            /\ CurRows(c)[i].model_id = L[k].model_id
                            /\ CurRows(c)[i].rank = L[k].rank
                      /\ L[k].rank_delta # None
                      /\ Val(L[k].rank_delta) > 0
                      /\ Val(L[k].rank_delta) + L[k].rank
                             \in BaseRanks(w, c, L[k].model_id)
                /\ \A k \in 1..(Len(L) - 1) :
                      Val(L[k].rank_delta) >= Val(L[k + 1].rank_delta)
                /\ \A i \in DOMAIN CurRows(c) :
                      LET r == CurRows(c)[i]
                      IN  (PositiveDelta(w, c, r) /\ r.model_id \notin IdsOf(L)) =>
                              \A k \in DOMAIN L : \A b \in BaseRanks(w, c, r.model_id) :
                                  b - r.rank <= Val(L[k].rank_delta)

\* a list of ten entries with distinct deltas and a positive-delta entry left out
C2_Witness ==
    /\ Analyzed
    /\ \E w \in WinSet : \E c \in CatSet :
          LET L == result.fast_risers[w][c]
          IN  /\ Len(L) = 10
              /\ Val(L[1].rank_delta) > Val(L[10].rank_delta)
              /\ \E i \in DOMAIN CurRows(c) :
                    /\ PositiveDelta(w, c, CurRows(c)[i])
                    /\ CurRows(c)[i].model_id \notin IdsOf(L)

\* the baseline identifiers of (w, c) ranked 50 or better
TopSet(w, c) ==
    {BaseRows(w, c)[j].model_id : j \in {k \in DOMAIN BaseRows(w, c) :
                                            BaseRows(w, c)[k].rank <= 50}}
NewStarCondition(w, c, r) ==
    r.rank <= 30 /\ TopSet(w, c) # {} /\ r.model_id \notin TopSet(w, c)
InNewStars(w, c, id) ==
    \E k \in DOMAIN result.new_stars[w] :
        /\ result.new_stars[w][k].model_id = id
        /\ result.new_stars[w][k].category = c

\* C3: a current entry of c is in new_stars[w], tagged c, iff its rank is
\* <= 30, the baseline top-50 set of (w, c) is non-empty and does not hold
\* its identifier; with an empty top-50 set no entry of c is a new star.
C3_NewStars ==
    Analyzed =>
        \A w \in WinSet : \A c \in CatSet :
            /\ \A i \in DOMAIN CurRows(c) :
                  InNewStars(w, c, CurRows(c)[i].model_id)
                      <=> NewStarCondition(w, c, CurRows(c)[i])
            /\ \A k \in DOMAIN result.new_stars[w] :
                  result.new_stars[w][k].category = c =>
                      result.new_stars[w][k].model_id \in IdsOf(CurRows(c))

\* a window and category with a new star of rank 30, an entry of rank > 30
\* outside the top-50 set, and an entry kept out by the top-50 set
C3_Witness ==
    /\ Analyzed
    /\ \E w \in WinSet : \E c \in CatSet :
          /\ \E i \in DOMAIN CurRows(c) :
                CurRows(c)[i].rank = 30 /\ InNewStars(w, c, CurRows(c)[i].model_id)
          /\ \E i \in DOMAIN CurRows(c) :
                /\ CurRows(c)[i].rank > 30
                /\ CurRows(c)[i].model_id \notin TopSet(w, c)
          /\ \E i \in DOMAIN CurRows(c) :
                /\ CurRows(c)[i].rank <= 30
                /\ CurRows(c)[i].model_id \in TopSet(w, c)

\* the reconciler finds no key of the catalogue for id: no key has id's
\* normalized form and no key has a token overlap of 0.5 or more
Unmatched(id, catalogue) ==
    \A k \in DOMAIN catalogue :
        LET a == Tokens(id)
            b == Tokens(catalogue[k].key)
        IN  /\ Norm(catalogue[k].key) # Norm(id)
            /\ (a = {} \/ b = {} \/ 2 * Cardinality(a \cap b) < Cardinality(a \cup b))

\* C7: a row whose identifier the reconciler does not match in the pricing
\* catalogue (an empty catalogue included) has price_input, price_output,
\* context_length and days_in_board null; one not matched in the usage
\* catalogue has or_rank and or_volume null.  The row is still produced.
C7_UnmatchedFieldsNull ==
    Analyzed =>
        \A c \in CatSet :
            /\ RowsFollowCurrent(c)
            /\ \A i \in DOMAIN result.rankings[c] :
                  LET r == result.rankings[c][i]
                  IN  /\ Unmatched(r.model_id, or_data.pricing) =>
                            /\ r.price_input = None
                            /\ r.price_output = None
                            /\ r.context_length = None
                            /\ r.days_in_board = None
                      /\ Unmatched(r.model_id, or_data.usage_ranks) =>
                            /\ r.or_rank = None
                            /\ r.or_volume = None

\* a non-empty pricing catalogue that matches one row of a ranking and not
\* another, and a usage catalogue that matches no row of it
C7_Witness ==
    /\ Analyzed
    /\ or_data.pricing # <<>>
    /\ \E c \in CatSet : \E i, j \in DOMAIN result.rankings[c] :
          /\ Unmatched(result.rankings[c][i].model_id, or_data.pricing)
          /\ result.rankings[c][i].price_input = None
          /\ Unmatched(result.rankings[c][i].model_id, or_data.usage_ranks)
          /\ result.rankings[c][j].price_input # None
          /\ result.rankings[c][j].days_in_board # None

\* C8: when the baseline of window w is null, or has no entries for category
\* c, fast_risers[w][c] is empty and new_stars[w] has no entry of c; for the
\* 7-day window every row of rankings[c] has prev_rank and rank_delta null
\* and both flags false, and there is still one row per current entry.
C8_MissingBaseline ==
    Analyzed =>
        \A w \in WinSet : \A c \in CatSet :
            BaseRows(w, c) = <<>> =>
                /\ result.fast_risers[w][c] = <<>>
                /\ \A k \in DOMAIN result.new_stars[w] :
                      result.new_stars[w][k].category # c
                /\ RowsFollowCurrent(c)
                /\ w = "7d" =>
                      \A i \in DOMAIN result.rankings[c] :
                          /\ result.rankings[c][i].prev_rank = None
                          /\ result.rankings[c][i].rank_delta = None
                          /\ result.rankings[c][i].is_riser = FALSE
                          /\ result.rankings[c][i].is_new_star = FALSE

\* no 7-day baseline at all, a full current general board, and a 30-day
\* baseline that yields risers and new stars
C8_Witness ==
    /\ Analyzed
    /\ lmarena.previous_7d = None
    /\ Len(result.rankings["general"]) = BoardSize
    /\ result.fast_risers["30d"]["general"] # <<>>
    /\ result.new_stars["30d"] # <<>>

\* C9: a row of rankings[c] has is_riser iff its identifier is in
\* fast_risers["7d"][c], and is_new_star iff it meets the 7-day new-star
\* condition of c; the 30-day baseline enters neither flag.
C9_FlagsFrom7dWindow ==
    Analyzed =>
        \A c \in CatSet : \A i \in DOMAIN result.rankings[c] :
            LET r == result.rankings[c][i]
            IN  /\ r.is_riser <=> r.model_id \in IdsOf(result.fast_risers["7d"][c])
                /\ r.is_new_star <=> NewStarCondition("7d", c, r)

\* a row of positive 7-day delta left out of the ten and not flagged as a
\* riser, and a row listed in new_stars["30d"] whose ranking row is not
\* flagged as a new star
C9_Witness ==
    /\ Analyzed
    /\ \E c \in CatSet : \E i \in DOMAIN result.rankings[c] :
          /\ result.rankings[c][i].rank_delta # None
          /\ Val(result.rankings[c][i].rank_delta) > 0
          /\ ~result.rankings[c][i].is_riser
    /\ \E c \in CatSet : \E i \in DOMAIN result.rankings[c] :
          /\ InNewStars("30d", c, result.rankings[c][i].model_id)
          /\ ~result.rankings[c][i].is_new_star

-----------------------------------------------------------------------------
(* Properties of get_company_scorecard() *)

\* C10: every scorecard entry has momentum_score = fast_risers*3 +
\* new_stars*5 + top30_general + top30_coding and investment_score =
\* momentum_score*2 + market_share_pct*1.5 + (10 if category_leader) +
\* (top10_general + top10_coding)*3, rounded to one decimal.
C10_InvestmentScore ==
    pc = "scored" =>
        \A k \in DOMAIN scorecard.entries :
            LET e == scorecard.entries[k]
            IN  /\ e.momentum_score =
                      e.fast_risers * 3 + e.new_stars * 5
                      + e.top30_general + e.top30_coding
                /\ e.investment_score =
                      RoundedTenths(e.momentum_score * 2
                                    + (IF e.category_leader THEN 10 ELSE 0)
                                    + (e.top10_general + e.top10_coding) * 3,
                                    e.market_share_pct)

-----------------------------------------------------------------------------
(* Properties of get_company_scorecard() *)

Scored == pc = "scored"

\* the rows of both rankings and the identifiers ranked
RankedRows ==
    UNION {{result.rankings[c][i] : i \in DOMAIN result.rankings[c]} : c \in CatSet}
RankedIds == {r.model_id : r \in RankedRows}
\* a row of identifier id: its volume, prices, publisher and licensing class
\* are those of every row of id
RowOf(id) == CHOOSE r \in RankedRows : r.model_id = id
VolumeOf == [id \in RankedIds |-> OrZero(RowOf(id).or_volume)] @@ <<>>
RevenueOf ==
    [id \in RankedIds |->
        OrZero(RowOf(id).or_volume)
        * (OrZero(RowOf(id).price_input) + OrZero(RowOf(id).price_output))] @@ <<>>
IdsOfLab(lab) == {id \in RankedIds : RowOf(id).lab = lab}

\* the sum of f over the set S
RECURSIVE SumOver(_, _)
SumOver(f, S) ==
    IF S = {} THEN 0
    ELSE LET x == CHOOSE y \in S : TRUE IN f[x] + SumOver(f, S \ {x})

TotalVolume == SumOver(VolumeOf, RankedIds)

\* number of rows of category c attributed to lab with rank <= n
Placements(c, lab, n) ==
    Cardinality({i \in DOMAIN result.rankings[c] :
                    /\ result.rankings[c][i].lab = lab
                    /\ result.rankings[c][i].rank <= n})

\* C11: the market_volume of the returned publishers sums to the total volume
\* over the distinct identifiers; when that total is positive every
\* market_share_pct is market_volume / total * 100 and the shares sum to 100;
\* when it is 0 every market_share_pct is 0.
C11_MarketShareSumsTo100 ==
    Scored =>
        LET E == scorecard.entries
            scaled(k) == E[k].market_share_pct[1]
                         * (TotalVolume \div E[k].market_share_pct[2])
        IN  /\ SumSeq([k \in DOMAIN E |-> E[k].market_volume]) = TotalVolume
            /\ \A k \in DOMAIN E : E[k].market_share_pct[2] > 0
            /\ TotalVolume > 0 =>
                  /\ \A k \in DOMAIN E :
                        /\ TotalVolume % E[k].market_share_pct[2] = 0
                        /\ E[k].market_share_pct[1] * TotalVolume
                             = 100 * E[k].market_volume * E[k].market_share_pct[2]
                  /\ SumSeq([k \in DOMAIN E |-> scaled(k)]) = 100 * TotalVolume
            /\ TotalVolume = 0 =>
                  \A k \in DOMAIN E : E[k].market_share_pct[1] = 0

\* a scorecard over a positive total volume shared by several publishers, one
\* of them with an identifier ranked in both categories
C11_Witness ==
    /\ Scored
    /\ TotalVolume > 0
    /\ \E j, k \in DOMAIN scorecard.entries :
          /\ j # k
          /\ scorecard.entries[j].market_volume > 0
          /\ scorecard.entries[k].market_volume > 0
    /\ \E i \in DOMAIN result.rankings["general"] :
       \E j \in DOMAIN result.rankings["coding"] :
          /\ result.rankings["general"][i].model_id
               = result.rankings["coding"][j].model_id
          /\ OrZero(result.rankings["general"][i].or_volume) > 0

\* C12: category_leader of a publisher is true exactly when some category's
\* ranking has a row of rank 1 attributed to the publisher; a category without
\* a rank-1 row makes no publisher a leader.
C12_LeaderIffRankOne ==
    Scored =>
        \A k \in DOMAIN scorecard.entries :
            scorecard.entries[k].category_leader
              <=> \E r \in RankedRows :
                     r.rank = 1 /\ r.lab = scorecard.entries[k].lab

\* C13: an identifier ranked in both categories counts once in its
\* publisher's market_volume, revenue_proxy and oss/proprietary counts and
\* once in the total volume, and once per category in top10 / top30.
C13_CountedOncePerIdentifier ==
    Scored =>
        \A k \in DOMAIN scorecard.entries :
            LET e   == scorecard.entries[k]
                ids == IdsOfLab(e.lab)
            IN  /\ e.market_volume = SumOver(VolumeOf, ids)
                /\ e.revenue_proxy = <<SumOver(RevenueOf, ids), 2000000>>
                /\ e.oss_count
                     = Cardinality({id \in ids : RowOf(id).is_open_source})
                /\ e.proprietary_count
                     = Cardinality({id \in ids : ~RowOf(id).is_open_source})
                /\ e.market_share_pct
                     = IF TotalVolume > 0
                       THEN <<e.market_volume * 100, TotalVolume>> ELSE <<0, 1>>
                /\ e.top10_general = Placements("general", e.lab, 10)
                /\ e.top10_coding  = Placements("coding", e.lab, 10)
                /\ e.top30_general = Placements("general", e.lab, 30)
                /\ e.top30_coding  = Placements("coding", e.lab, 30)

\* an identifier with volume and prices ranked in the top 10 of both
\* categories, its publisher in the scorecard
C13_Witness ==
    /\ Scored
    /\ \E i \in DOMAIN result.rankings["general"] :
       \E j \in DOMAIN result.rankings["coding"] :
       \E k \in DOMAIN scorecard.entries :
          LET g == result.rankings["general"][i]
              c == result.rankings["coding"][j]
              e == scorecard.entries[k]
          IN  /\ g.model_id = c.model_id
              /\ g.rank <= 10 /\ c.rank <= 10
              /\ OrZero(g.or_volume) > 0
              /\ OrZero(g.price_input) > 0
              /\ e.lab = g.lab
              /\ e.top10_general >= 1 /\ e.top10_coding >= 1
              /\ e.market_volume = OrZero(g.or_volume)

-----------------------------------------------------------------------------
(* Properties of get_model_picks() *)

Picked == picks # NotRun

\* the ten scenario keys: selection, partition, winner key, runner-up key
Scenarios ==
    { [s |-> "best", part |-> "cloud",
       key |-> "best_cloud", ru |-> "best_cloud_ru"],
      [s |-> "best", part |-> "oss",
       key |-> "best_oss", ru |-> "best_oss_ru"],
      [s |-> "best_value", part |-> "cloud",
       key |-> "best_value_cloud", ru |-> "best_value_cloud_ru"],
      [s |-> "best_value", part |-> "oss",
       key |-> "best_value_oss", ru |-> "best_value_oss_ru"],
      [s |-> "best_coding", part |-> "cloud",
       key |-> "best_coding_cloud", ru |-> "best_coding_cloud_ru"],
      [s |-> "best_coding", part |-> "oss",
       key |-> "best_coding_oss", ru |-> "best_coding_oss_ru"],
      [s |-> "best_long_ctx", part |-> "cloud",
       key |-> "best_long_ctx_cloud", ru |-> "best_long_ctx_cloud_ru"],
      [s |-> "best_long_ctx", part |-> "oss",
       key |-> "best_long_ctx_oss", ru |-> "best_long_ctx_oss_ru"],
      [s |-> "most_adopted", part |-> "cloud",
       key |-> "most_adopted_cloud", ru |-> "most_adopted_cloud_ru"],
      [s |-> "most_adopted", part |-> "oss",
       key |-> "most_adopted_oss", ru |-> "most_adopted_oss_ru"] }
PickKeys == {sc.key : sc \in Scenarios} \cup {sc.ru : sc \in Scenarios}

\* the partition of the deduplicated pool
PartList(part) ==
    IF part = "cloud" THEN Cloud(AllModels(p_rankings))
    ELSE Oss(AllModels(p_rankings))

\* lst with the rows of identifier id removed
Without(lst, id) ==
    LET keep(m) == m.model_id # id IN SelectSeq(lst, keep)

\* the selection of scenario s run on lst, nothing excluded
Select(s, lst) ==
    CASE s = "best"          -> BestByElo(lst, None)
      [] s = "best_value"    -> BestByValue(lst, None)
      [] s = "best_coding"   -> BestCoding(lst, None, p_rankings)
      [] s = "best_long_ctx" -> BestLongContext(lst, MinCtx, None)
      [] OTHER               -> MostAdopted(lst, TopN, None)

\* C14: for every scenario and partition, a null winner has a null
\* runner-up; otherwise the runner-up is null or of another identifier than
\* the winner, and it is what the scenario's selection returns on the
\* partition with the winner's identifier removed.
C14_RunnerUpIsRerunWithoutWinner ==
    Picked =>
        \A sc \in Scenarios :
            LET w  == picks[sc.key]
                ru == picks[sc.ru]
            IN  /\ w = None => ru = None
                /\ w # None =>
                      /\ ru = None \/ Val(ru).model_id # Val(w).model_id
                      /\ ru = Select(sc.s, Without(PartList(sc.part), Val(w).model_id))

\* the rows of general then coding, and the pool row of an identifier: its
\* first row, the general one when it is ranked in both categories
PickRows == CatRows(p_rankings, "general") \o CatRows(p_rankings, "coding")
PoolRowOf(id) ==
    PickRows[CHOOSE i \in DOMAIN PickRows :
                /\ PickRows[i].model_id = id
                /\ \A j \in 1..(i - 1) : PickRows[j].model_id # id]

\* C15: no key of picks, winner or runner-up, holds an entity whose quality
\* score in the deduplicated pool is null or zero.
C15_NoPickWithoutQuality ==
    Picked =>
        \A k \in PickKeys :
            picks[k] # None =>
                /\ PoolRowOf(Val(picks[k]).model_id).elo # None
                /\ Val(PoolRowOf(Val(picks[k]).model_id).elo) # 0

-----------------------------------------------------------------------------
(* Properties of best_by_value() *)

ValueRun == v_run # NotRun

\* the positions of the candidates of v_lst with a quality score and a price
ValidCands ==
    {k \in DOMAIN v_lst :
        /\ v_lst[k].elo # None /\ Val(v_lst[k].elo) # 0
        /\ v_lst[k].price_input # None /\ Val(v_lst[k].price_input) # 0}
\* the values the candidates take for each factor
CandElos == {Val(v_lst[k].elo) : k \in ValidCands}
CandPrices == {Val(v_lst[k].price_input) : k \in ValidCands}
CandVolumes == {OrZero(v_lst[k].or_volume) : k \in ValidCands}
IsOne(q) == q[2] # 0 /\ q[1] = q[2]

\* C16: when all candidates share one value for a factor (its maximum equals
\* its minimum), the normalized factor is 1.0 for every candidate, for each
\* of quality, inverse price and usage volume; no denominator is zero.
C16_DegenerateFactorIsOne ==
    ValueRun =>
        \A i \in DOMAIN v_run.scores :
            /\ v_run.scores[i].elo_norm[2] # 0
            /\ v_run.scores[i].price_norm[2] # 0
            /\ v_run.scores[i].vol_norm[2] # 0
            /\ Cardinality(CandElos) = 1 => IsOne(v_run.scores[i].elo_norm)
            /\ Cardinality(CandPrices) = 1 => IsOne(v_run.scores[i].price_norm)
            /\ Cardinality(CandVolumes) = 1 => IsOne(v_run.scores[i].vol_norm)

\* best_by_value ran, one quality score was raised, and best_by_value ran again
ValueRerun == v_prev # NotRun /\ v_run # NotRun
\* the position of the raised candidate among the scored candidates
RaisedAt(scores) ==
    CHOOSE i \in DOMAIN scores : scores[i].model_id = v_prev.raised

\* C17: best-value selection is monotonic in quality: if the blended score of
\* x was at least that of y, it still is after only the quality score of x is
\* raised; a winner whose quality score is raised remains the winner.
C17_MonotonicInQuality ==
    ValueRerun =>
        /\ DOMAIN v_run.scores = DOMAIN v_prev.scores
        /\ \A j \in DOMAIN v_prev.scores :
              /\ v_run.scores[j].model_id = v_prev.scores[j].model_id
              /\ BlendGE(v_prev.scores[RaisedAt(v_prev.scores)].score,
                         v_prev.scores[j].score)
                    => BlendGE(v_run.scores[RaisedAt(v_run.scores)].score,
                               v_run.scores[j].score)
        /\ Val(v_prev.winner).model_id = v_prev.raised
              => Val(v_run.winner).model_id = v_prev.raised

\* the raised candidate was level with or ahead of another candidate, of
\* another quality score and another price, and the rerun has scored both
C17_Witness ==
    /\ ValueRerun
    /\ \E j \in DOMAIN v_prev.scores :
          /\ v_prev.scores[j].model_id # v_prev.raised
          /\ v_prev.scores[j].elo_norm # v_prev.scores[RaisedAt(v_prev.scores)].elo_norm
          /\ v_prev.scores[j].price_norm # v_prev.scores[RaisedAt(v_prev.scores)].price_norm
          /\ BlendGE(v_prev.scores[RaisedAt(v_prev.scores)].score,
                     v_prev.scores[j].score)
          /\ v_run.scores[j].elo_norm # v_prev.scores[j].elo_norm
    /\ Val(v_prev.winner).model_id = v_prev.raised
    /\ Val(v_run.winner).model_id = v_prev.raised

-----------------------------------------------------------------------------
(* Properties of best_coding() and most_adopted() *)

\* the identifiers ranked in the coding category
CodingIds == IdsOf(CatRows(p_rankings, "coding"))
\* the rows of the partition with a quality score that are ranked in coding
CodingEligible(part) ==
    {PartList(part)[i] : i \in {j \in DOMAIN PartList(part) :
        HasElo(PartList(part)[j]) /\ PartList(part)[j].model_id \in CodingIds}}

\* C18: the best-for-coding winner of a partition is a row of the
\* deduplicated pool, of the greatest quality score among the rows of the
\* partition whose identifier is ranked in coding; there is none exactly when
\* no such row exists.
C18_BestCodingIsPoolRow ==
    Picked =>
        \A sc \in {x \in Scenarios : x.s = "best_coding"} :
            /\ picks[sc.key] = None <=> CodingEligible(sc.part) = {}
            /\ picks[sc.key] # None =>
                  /\ Val(picks[sc.key]) \in CodingEligible(sc.part)
                  /\ \A m \in CodingEligible(sc.part) :
                        Val(m.elo) <= Val(Val(picks[sc.key]).elo)

\* the rows of the partition among its TopN first by quality score: a row
\* with a quality score that fewer than TopN such rows precede, a row
\* preceding another when its score is greater, or equal and it comes first
AheadOf(lst, i) ==
    {j \in DOMAIN lst :
        /\ HasElo(lst[j])
        /\ \/ Val(lst[j].elo) > Val(lst[i].elo)
           \/ Val(lst[j].elo) = Val(lst[i].elo) /\ j < i}
TopByQuality(part) ==
    {i \in DOMAIN PartList(part) :
        /\ HasElo(PartList(part)[i])
        /\ Cardinality(AheadOf(PartList(part), i)) < TopN}
\* those of them with a known usage volume
TopWithUsage(part) ==
    {i \in TopByQuality(part) :
        /\ PartList(part)[i].or_volume # None
        /\ Val(PartList(part)[i].or_volume) # 0}

\* C19: the most-adopted winner of a partition is a row of the greatest usage
\* volume among the rows of the partition's top 30 by non-zero quality score
\* that have a known usage volume; it is null exactly when there is no such
\* row, and a row without usage data is never the winner.
C19_MostAdoptedWithinTop30 ==
    Picked =>
        \A sc \in {x \in Scenarios : x.s = "most_adopted"} :
            /\ picks[sc.key] = None <=> TopWithUsage(sc.part) = {}
            /\ picks[sc.key] # None =>
                  /\ \E i \in TopWithUsage(sc.part) :
                        PartList(sc.part)[i] = Val(picks[sc.key])
                  /\ \A i \in TopWithUsage(sc.part) :
                        Val(PartList(sc.part)[i].or_volume)
                            <= Val(Val(picks[sc.key]).or_volume)

\* the usage volume of row i of the partition, known and outside the top 30
UsageOutsideTop(part, i) ==
    /\ HasElo(PartList(part)[i])
    /\ Truthy(PartList(part)[i].or_volume)
    /\ i \notin TopByQuality(part)

\* a partition of more than 30 scored rows: the winner is chosen although a
\* row outside the top 30 has a greater usage volume
C19_Witness ==
    /\ Picked
    /\ picks["most_adopted_cloud"] # None
    /\ \E i \in DOMAIN PartList("cloud") :
          /\ UsageOutsideTop("cloud", i)
          /\ Val(PartList("cloud")[i].or_volume)
                > Val(Val(picks["most_adopted_cloud"]).or_volume)

-----------------------------------------------------------------------------
(* Properties of the result of get_model_picks() *)

\* row i of the partition is a candidate of selection s; for best_coding, a
\* row ranked in coding whose pool row or coding row has a quality score
CodingScored(id) ==
    \E j \in DOMAIN CatRows(p_rankings, "coding") :
        /\ CatRows(p_rankings, "coding")[j].model_id = id
        /\ HasElo(CatRows(p_rankings, "coding")[j])
IsCandidate(s, part, i) ==
    CASE s = "best" ->
            HasElo(PartList(part)[i])
      [] s = "best_value" ->
            /\ HasElo(PartList(part)[i])
            /\ PartList(part)[i].price_input # None
            /\ Val(PartList(part)[i].price_input) # 0
      [] s = "best_coding" ->
            /\ PartList(part)[i].model_id \in CodingIds
            /\ HasElo(PartList(part)[i]) \/ CodingScored(PartList(part)[i].model_id)
      [] s = "best_long_ctx" ->
            /\ HasElo(PartList(part)[i])
            /\ PartList(part)[i].context_length # None
            /\ Val(PartList(part)[i].context_length) >= 128000
      [] OTHER ->
            i \in TopWithUsage(part)
HasCandidate(sc) ==
    \E i \in DOMAIN PartList(sc.part) : IsCandidate(sc.s, sc.part, i)

-----------------------------------------------------------------------------
(* Properties of the partitions of get_model_picks() *)

\* the keys of the picks of a partition, winners and runner-ups
KeysOfPart(part) ==
    {sc.key : sc \in {x \in Scenarios : x.part = part}}
        \cup {sc.ru : sc \in {x \in Scenarios : x.part = part}}

\* C21: every non-null pick under a cloud key, winner or runner-up, has
\* is_open_source = false and every one under an oss key has is_open_source =
\* true; each identifier occurs at most once in the pool the picks are drawn
\* from.
C21_PicksRespectPartition ==
    Picked =>
        /\ \A k \in KeysOfPart("cloud") :
              picks[k] # None => Val(picks[k]).is_open_source = FALSE
        /\ \A k \in KeysOfPart("oss") :
              picks[k] # None => Val(picks[k]).is_open_source = TRUE
        /\ \A i, j \in DOMAIN AllModels(p_rankings) :
              AllModels(p_rankings)[i].model_id = AllModels(p_rankings)[j].model_id
                  => i = j

\* rankings with an identifier in both categories and rows of both licences:
\* a proprietary and an open-source winner and runner-up are picked
C21_Witness ==
    /\ Picked
    /\ picks["best_cloud"] # None /\ picks["best_cloud_ru"] # None
    /\ picks["best_oss"] # None /\ picks["best_oss_ru"] # None
    /\ picks["best_coding_cloud"] # None /\ picks["best_coding_oss"] # None
    /\ IdsOf(CatRows(p_rankings, "general")) \cap CodingIds # {}
    /\ Len(AllModels(p_rankings)) < Len(PickRows)

-----------------------------------------------------------------------------
(* Properties of repeated analyze() calls *)

Repeated == run1 # NotRun /\ run2 # NotRun

\* rows with days_in_board left out of the comparison
SansDays(rows) ==
    AsSeq([i \in DOMAIN rows |-> [rows[i] EXCEPT !.days_in_board = None]])
ResultSansDays(res) ==
    [ rankings    |-> [cat \in {"general", "coding"} |-> SansDays(res.rankings[cat])],
      fast_risers |-> [w \in {"7d", "30d"} |->
                         [cat \in {"general", "coding"} |->
                             SansDays(res.fast_risers[w][cat])]],
      new_stars   |-> [w \in {"7d", "30d"} |-> SansDays(res.new_stars[w])] ]

\* C22: two analyze calls on identical snapshots and catalogues return
\* results that agree on every field other than days_in_board, whatever the
\* wall clock and the state outside the inputs.
C22_SameInputsSameResult ==
    Repeated => ResultSansDays(run1) = ResultSansDays(run2)

-----------------------------------------------------------------------------
(* Properties of get_lab_from_model_id() *)

LabCalled == g_lab # None
\* the local name: the text after the first "/", in lower case, character by
\* character
LocalName == Lower(AfterSlash(Val(g_id)))
\* the rules whose prefix the local name starts with
MatchingRules ==
    {i \in DOMAIN LabRules :
        /\ Len(LabRules[i].prefix) <= Len(LocalName)
        /\ \A k \in 1..Len(LabRules[i].prefix) : LocalName[k] = LabRules[i].prefix[k]}
LongestRules ==
    {i \in MatchingRules :
        \A j \in MatchingRules : Len(LabRules[j].prefix) <= Len(LabRules[i].prefix)}

\* C23: get_lab_from_model_id returns the publisher of the first rule of the
\* table whose prefix the lowercased local name starts with; that publisher
\* is the one of the longest matching prefix; the result is "Unknown" exactly
\* when no prefix matches.
C23_FirstRuleIsLongestRule ==
    LabCalled =>
        /\ Val(g_lab) = "Unknown" <=> MatchingRules = {}
        /\ \A i \in MatchingRules :
              (\A j \in MatchingRules : i <= j) => Val(g_lab) = LabRules[i].lab
        /\ \A i \in LongestRules : Val(g_lab) = LabRules[i].lab

\* an identifier behind a provider that two rules of different publishers
\* match, the longer prefix first in the table
C23_Witness ==
    /\ LabCalled
    /\ Len(AfterSlash(Val(g_id))) < Len(Val(g_id))
    /\ \E i, j \in MatchingRules :
          /\ i < j
          /\ LabRules[i].lab # LabRules[j].lab
          /\ Val(g_lab) = LabRules[i].lab

-----------------------------------------------------------------------------
(* Properties of _token_overlap() *)

BothOverlaps == t_ab # None /\ t_ba # None

\* C24: the token-overlap score is symmetric, _token_overlap(a, b) =
\* _token_overlap(b, a) for all token sets a and b, and it is 0 when either
\* set is empty.
C24_TokenOverlapSymmetric ==
    BothOverlaps =>
        /\ Val(t_ab)[2] > 0 /\ Val(t_ba)[2] > 0
        /\ Val(t_ab)[1] * Val(t_ba)[2] = Val(t_ba)[1] * Val(t_ab)[2]
        /\ (Val(t_a) = {} \/ Val(t_b) = {}) => Val(t_ab)[1] = 0 /\ Val(t_ba)[1] = 0

\* two sets of different sizes that share some tokens and not others
C24_Witness ==
    /\ BothOverlaps
    /\ Cardinality(Val(t_a)) < Cardinality(Val(t_b))
    /\ Val(t_a) \cap Val(t_b) # {}
    /\ Val(t_a) \ Val(t_b) # {}
    /\ Val(t_ab)[1] > 0 /\ Val(t_ab)[1] < Val(t_ab)[2]

-----------------------------------------------------------------------------
(* Frame properties of analyze(), get_company_scorecard() and              *)
(* get_model_picks()                                                        *)

\* the rows of rankings[c] as analyze appends them, before the window loop
FreshRows(c, now) ==
    MergedRows(CatRows(lmarena.current, c),
               PrevById(CatRows(lmarena.previous_7d, c)),
               or_data.pricing, or_data.usage_ranks, now)
FlagsCleared(rows) ==
    AsSeq([i \in DOMAIN rows |->
              [rows[i] EXCEPT !.is_riser = FALSE, !.is_new_star = FALSE]])
\* every row of rankings differs from the row appended in its flags at most
OnlyFlagsChanged ==
    Analyzed =>
        \E now \in NowSet : \A c \in CatSet :
            FlagsCleared(result.rankings[c]) = FreshRows(c, now)
\* a step of analyze keeps its inputs, a step of get_company_scorecard or
\* get_model_picks keeps the inputs and the analysis result
FrameStep ==
    /\ lmarena' = lmarena
    /\ or_data' = or_data
    /\ pc # "start" => result' = result

\* C25: merged rows are not changed after construction except in is_riser
\* and is_new_star; get_company_scorecard and get_model_picks leave the
\* analysis result unchanged, and analyze leaves its inputs unchanged.
C25_OnlyFlagsMutated == []OnlyFlagsChanged /\ [][FrameStep]_vars

\* analyze has set both flags on rows, and the scorecard and the picks were
\* computed from the result
C25_Witness ==
    /\ pc = "picked"
    /\ scorecard # None
    /\ picks # NotRun /\ picks["best_cloud"] # None
    /\ \E c \in CatSet : \E i \in DOMAIN result.rankings[c] :
          result.rankings[c][i].is_riser
    /\ \E c \in CatSet : \E i \in DOMAIN result.rankings[c] :
          result.rankings[c][i].is_new_star

-----------------------------------------------------------------------------
(* Properties of the entries of fast_risers *)

\* C26: every entry of fast_risers[w][c], for both windows, has as prev_rank
\* the rank of its identifier in the baseline of window w and rank_delta =
\* prev_rank - rank.
C26_RiserEntryFollowsItsWindow ==
    Analyzed =>
        \A w \in WinSet : \A c \in CatSet :
            \A k \in DOMAIN result.fast_risers[w][c] :
                /\ result.fast_risers[w][c][k].prev_rank # None
                /\ Val(result.fast_risers[w][c][k].prev_rank)
                      \in BaseRanks(w, c, result.fast_risers[w][c][k].model_id)
                /\ result.fast_risers[w][c][k].rank_delta
                      = Some(Val(result.fast_risers[w][c][k].prev_rank)
                                - result.fast_risers[w][c][k].rank)

-----------------------------------------------------------------------------
(* Properties of the best-value runner-up *)

\* the candidates of the partition with a quality score and a price, and
\* their blended scores under the bounds of this pool
ValuePool(part) == ValueValid(PartList(part), None)
PoolScores(part) == ValueScores(ValuePool(part))
\* the positions of the pool other than the winner's
NotWinner(part, w) ==
    {i \in DOMAIN ValuePool(part) : ValuePool(part)[i].model_id # Val(w).model_id}

\* C27: the best-value runner-up of a partition is a candidate of the highest
\* blended score among the candidates other than the winner, the scores being
\* those of the scoring that selected the winner; there is none exactly when
\* the winner is the only candidate.
C27_RunnerUpIsSecondOfSameScoring ==
    Picked =>
        \A sc \in {x \in Scenarios : x.s = "best_value"} :
            picks[sc.key] # None =>
                /\ picks[sc.ru] = None <=> NotWinner(sc.part, picks[sc.key]) = {}
                /\ picks[sc.ru] # None =>
                      \E i \in NotWinner(sc.part, picks[sc.key]) :
                          /\ ValuePool(sc.part)[i] = Val(picks[sc.ru])
                          /\ \A j \in NotWinner(sc.part, picks[sc.key]) :
                                BlendGE(PoolScores(sc.part)[i].score,
                                        PoolScores(sc.part)[j].score)

-----------------------------------------------------------------------------
(* Properties of the flags carried by the momentum lists *)

\* the row of rankings[c] with the identifier of entry e
RankingRowsOf(c, e) ==
    {i \in DOMAIN result.rankings[c] : result.rankings[c][i].model_id = e.model_id}

\* C28: every entry of fast_risers["7d"][c] has is_riser = true and every
\* entry of new_stars[w], for both windows, has is_new_star = true, and the
\* two flags of an entry are those of the row of its identifier in
\* rankings[c].
C28_ListFlagsAgreeWithMembership ==
    Analyzed =>
        /\ \A c \in CatSet : \A k \in DOMAIN result.fast_risers["7d"][c] :
              /\ result.fast_risers["7d"][c][k].is_riser
              /\ \A i \in RankingRowsOf(c, result.fast_risers["7d"][c][k]) :
                    /\ result.rankings[c][i].is_riser
                          = result.fast_risers["7d"][c][k].is_riser
                    /\ result.rankings[c][i].is_new_star
                          = result.fast_risers["7d"][c][k].is_new_star
        /\ \A w \in WinSet : \A k \in DOMAIN result.new_stars[w] :
              /\ result.new_stars[w][k].is_new_star
              /\ \A i \in RankingRowsOf(result.new_stars[w][k].category,
                                        result.new_stars[w][k]) :
                    /\ result.rankings[result.new_stars[w][k].category][i].is_new_star
                          = result.new_stars[w][k].is_new_star
                    /\ result.rankings[result.new_stars[w][k].category][i].is_riser
                          = result.new_stars[w][k].is_riser

-----------------------------------------------------------------------------
(* Properties of lmarena.fetch() *)

Scraped == f_out # NotRun /\ f_out.scraped

\* C29: whenever fetch scrapes a new current snapshot, a non-null previous_7d
\* was captured at least 4 days before the fetch and a non-null previous_30d
\* at least 27 days before.
C29_BaselinesOldEnough ==
    Scraped =>
        /\ f_out.previous_7d # None =>
              f_out.fetched_at - Val(f_out.previous_7d) >= 4 * SecondsPerDay
        /\ f_out.previous_30d # None =>
              f_out.fetched_at - Val(f_out.previous_30d) >= 27 * SecondsPerDay

-----------------------------------------------------------------------------
(* Properties of the sorting step of index() *)

IndexSorted == s_out # NotRun

\* L is ordered by the field of sort_by in direction sort_order, the rows
\* whose field is null last
OrderedBy(L, sort_by, sort_order) ==
    \A i, j \in DOMAIN L :
        i < j =>
            /\ FieldOf(L[i], SortMap(sort_by)) = None
                  => FieldOf(L[j], SortMap(sort_by)) = None
            /\ (FieldOf(L[i], SortMap(sort_by)) # None
                    /\ FieldOf(L[j], SortMap(sort_by)) # None)
                  => IF sort_order = "desc"
                     THEN Val(FieldOf(L[i], SortMap(sort_by)))
                              >= Val(FieldOf(L[j], SortMap(sort_by)))
                     ELSE Val(FieldOf(L[i], SortMap(sort_by)))
                              <= Val(FieldOf(L[j], SortMap(sort_by)))

\* C30: for every result of analyze the sorting step of index completes
\* without raising and leaves every rankings[c], fast_risers[w][c] and
\* new_stars[w] ordered by the requested key and direction, null keys last.
C30_SortStepCompletes ==
    IndexSorted =>
        /\ ~s_out.raised
        /\ \A c \in CatSet :
              OrderedBy(s_out.rankings[c], s_req.sort_lb, s_req.order_lb)
        /\ \A w \in WinSet : \A c \in CatSet :
              OrderedBy(s_out.fast_risers[w][c], s_req.sort_fr, s_req.order_fr)
        /\ \A w \in WinSet :
              OrderedBy(s_out.new_stars[w], s_req.sort_ns, s_req.order_ns)

====
